----------------------------- MODULE MCUnitRuns -----------------------------
(* The later report's schedule is found in the legacy source but not in its   *)
(* canonical one; u3 is looked for by the second version of the code only.    *)
EXTENDS UnitRuns

CONSTANTS r1, r2, u1, u2, u3

MCConfigured == <<{u1, u2}, {u1, u2, u3}>>

MCMode == (u1 :> "LEXICAL_ONLY" @@ u2 :> "STRUCTURED_COMPARISON_PREFERRED")

MCLocated == {<<r1, "legacy">>, <<r1, "canonical">>, <<r2, "legacy">>}

\* Read from one source, u1 and u3 are resolved in both reports, u2 only in the
\* earlier one; a page range of another source cuts u1 short or loses it.
MCExtracted ==
  [x \in {r1, r2} \X Kinds \X Kinds |->
     [u \in {u1, u2, u3} |->
        CASE u = u1 /\ x[2] # x[3] -> IF x[1] = r1 THEN "UNRESOLVED" ELSE "absent"
          [] u = u2 /\ x[1] = r2 -> "UNRESOLVED"
          [] OTHER -> "RESOLVED"]]
=============================================================================
