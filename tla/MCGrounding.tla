---------------------------- MODULE MCGrounding ----------------------------
(* Module Grounding over lists of up to four events and one URL.           *)
EXTENDS Grounding, TLC

CONSTANTS url, none

Event(source, link) == [source |-> source, url |-> link]

\* Three feeds; a feed whose events share a URL, as those of lcra.py do, alone
\* and with others; two readings of one feed before the others; fewer events
\* than citations asked for.
MCEvidence ==
    { <<Event("nws", url), Event("usgs", none), Event("lcra", none)>>,
      <<Event("lcra", url), Event("lcra", url)>>,
      <<Event("lcra", url), Event("lcra", url), Event("nws", none), Event("usgs", none)>>,
      <<Event("nws", none), Event("nws", none), Event("lcra", none), Event("lcra", url)>>,
      <<Event("nws", url)>> }
=============================================================================
