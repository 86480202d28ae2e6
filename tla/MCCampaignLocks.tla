--------------------------- MODULE MCCampaignLocks ---------------------------
(***************************************************************************)
(* Eight jobs, started three by three: two usage campaigns of the same     *)
(* label and the resumption of their queue, a directed and a target        *)
(* campaign, a replay, a family command and a recovery.  Every two jobs    *)
(* that can meet do so in one of the mixes.                                *)
(***************************************************************************)
EXTENDS CampaignLocks, TLC

CONSTANTS u, v, r, d, t, p, f, c

MCJobs == {u, v, r, d, t, p, f, c}

MCKind == (u :> "usage") @@ (v :> "usage") @@ (r :> "resume") @@ (d :> "directed")
          @@ (t :> "target") @@ (p :> "replay") @@ (f :> "family") @@ (c :> "recovery")

MCMixes == {{u, r, f}, {u, v, r}, {u, c, t}, {u, d, p}, {d, t, f}, {d, c, f}, {p, f, c},
            {p, t, c}, {u, r, c}}

MCLength == [label \in Labels |->
                IF label = "usage" THEN 3 ELSE IF label \in {"directed", "recovery"} THEN 2 ELSE 1]
=============================================================================
