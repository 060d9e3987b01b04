-------------------------- MODULE ReleaseRegister --------------------------
(***************************************************************************)
(* What the publication layer promises its readers: releases that never    *)
(* change once they are recorded, one of which is live.  A release goes    *)
(* live at most once, a rejected one never does, and the live one is not   *)
(* retired.  Nothing is said of how releases share their content.          *)
(***************************************************************************)
CONSTANTS
  Versions,  \* names of releases
  None       \* no live version

VARIABLES
  release,   \* the content of each recorded release, by version
  live,      \* the version readers see
  spent,     \* the recorded versions that are or were live
  rejected   \* the recorded versions that may not go live

vars == <<release, live, spent, rejected>>

Init ==
  /\ DOMAIN release = {}
  /\ live = None
  /\ spent = {}
  /\ rejected = {}

\* Any content may be recorded, once, under a free version.
Add(v) ==
  /\ v \notin DOMAIN release
  /\ DOMAIN release' = DOMAIN release \cup {v}
  /\ \A w \in DOMAIN release : release'[w] = release[w]
  /\ rejected' \in {rejected, rejected \cup {v}}
  /\ UNCHANGED <<live, spent>>

GoLive(v) ==
  /\ v \in DOMAIN release
  /\ v \notin spent \cup rejected
  /\ live' = v
  /\ spent' = spent \cup {v}
  /\ UNCHANGED <<release, rejected>>

Retire(gone) ==
  /\ live \notin gone
  /\ release' = [v \in DOMAIN release \ gone |-> release[v]]
  /\ spent' = spent \ gone
  /\ rejected' = rejected \ gone
  /\ UNCHANGED live

Next ==
  \/ \E v \in Versions : Add(v)
  \/ \E v \in Versions : GoLive(v)
  \/ \E gone \in SUBSET Versions : Retire(gone)

Spec == Init /\ [][Next]_vars
=============================================================================
