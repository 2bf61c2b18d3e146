------------------------------ MODULE ImportOnce ------------------------------
(***************************************************************************)
(* What the legacy importer promises (import_legacy_sqlite.py): at most    *)
(* one plan is ever imported, whole and in one step, by a run that found   *)
(* the destination empty; and a run says afterwards what it has done.  No  *)
(* tables written one by one, no advisory lock, no snapshots, no commits   *)
(* that are not answered: LegacyImport implements this.                    *)
(***************************************************************************)
CONSTANTS Runs, Plans, Places, NoPlan

VARIABLES imported,  \* the plan in the destination, if there is one
          grown,     \* the places that hold rows of the application
          asked,     \* the plan a run is about, until it ends
          open,      \* the runs that found the destination empty and may import
          done,      \* the runs under way that have imported
          told       \* what the last run of a slot has reported

vars == <<imported, grown, asked, open, done, told>>

Init == /\ imported = {}
        /\ grown = {}
        /\ asked = [r \in Runs |-> NoPlan]
        /\ open = {}
        /\ done = {}
        /\ told = [r \in Runs |-> "none"]

\* A run starts, or ends at once and says nothing.
Call(r, p) == /\ asked[r] = NoPlan
              /\ asked' = [asked EXCEPT ![r] = p]
              /\ told' = [told EXCEPT ![r] = "none"]
              /\ UNCHANGED <<imported, grown, open, done>>

Open(r) == /\ asked[r] # NoPlan
           /\ imported = {} /\ grown = {}
           /\ open' = open \union {r}
           /\ UNCHANGED <<imported, grown, asked, done, told>>

\* Nothing was imported since the run looked; the application may have written.
Import(r) == /\ r \in open
             /\ imported = {}
             /\ imported' = {asked[r]}
             /\ open' = open \ {r}
             /\ done' = done \union {r}
             /\ UNCHANGED <<grown, asked, told>>

GiveUp(r) == /\ open' = open \ {r}
             /\ UNCHANGED <<imported, grown, asked, done, told>>

\* What a report may be based on.
Honest(r, report) ==
    /\ report = "applied" => r \in done
    /\ report \in {"already_applied", "rolled_back", "unsafe_nonempty", "dry_run"} => r \notin done
    /\ report \in {"applied", "already_applied", "verified"} => imported = {asked[r]}
    /\ report = "unsafe_nonempty" => imported # {} \/ grown # {}

\* A run ends with a report, or dies and leaves none.
End(r, report) == /\ asked[r] # NoPlan
                  /\ Honest(r, report)
                  /\ asked' = [asked EXCEPT ![r] = NoPlan]
                  /\ told' = [told EXCEPT ![r] = report]
                  /\ open' = open \ {r}
                  /\ done' = done \ {r}
                  /\ UNCHANGED <<imported, grown>>

Grow(i) == /\ grown' = grown \union {i}
           /\ UNCHANGED <<imported, asked, open, done, told>>

Reports == {"none", "dry_run", "applied", "already_applied", "rolled_back", "transaction_failed",
            "unsafe_nonempty", "verification_failed", "verified"}

Next == \/ \E i \in Places : Grow(i)
        \/ \E r \in Runs : \/ Open(r) \/ Import(r) \/ GiveUp(r)
                           \/ \E p \in Plans \union {NoPlan} : Call(r, p)
                           \/ \E report \in Reports : End(r, report)

Spec == Init /\ [][Next]_vars
=============================================================================
