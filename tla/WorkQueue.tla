------------------------------ MODULE WorkQueue ------------------------------
(***************************************************************************)
(* What a queue of background jobs promises, without saying where jobs are *)
(* kept: a submitted job is queued, taken by one worker at a time, and     *)
(* then finished, queued again or buried; only a buried job is revived.    *)
(* Two that reach for a waiting job at once end the promise for that job.  *)
(***************************************************************************)
CONSTANTS Jobs, Workers

VARIABLES
  state,   \* of each job
  holders  \* the workers that are carrying it out

vars == <<state, holders>>

JobState == {"unknown", "queued", "taken", "finished", "buried", "disputed"}

Init == /\ state = [j \in Jobs |-> "unknown"]
        /\ holders = [j \in Jobs |-> {}]

Move(j, from, to) == state[j] = from /\ state' = [state EXCEPT ![j] = to]

Submit(j) == Move(j, "unknown", "queued") /\ UNCHANGED holders

Take(w, j) == /\ holders[j] = {}
              /\ Move(j, "queued", "taken")
              /\ holders' = [holders EXCEPT ![j] = {w}]

(* The holder's verdict: done, to be tried again, or given up. *)
Settle(w, j) == /\ holders[j] = {w}
                /\ \E s \in {"finished", "queued", "buried"} : Move(j, "taken", s)
                /\ holders' = [holders EXCEPT ![j] = {}]

Revive(j) == Move(j, "buried", "queued") /\ UNCHANGED holders

(* A worker dies: the job stays taken, by nobody. *)
Abandon(w, j) == /\ holders[j] = {w}
                 /\ holders' = [holders EXCEPT ![j] = {}]
                 /\ UNCHANGED state

(* Two workers take a queued job, or two requests revive a buried one. *)
Clash(j) == /\ holders[j] = {}
            /\ Move(j, "queued", "disputed") \/ Move(j, "buried", "disputed")
            /\ UNCHANGED holders

Next == \E j \in Jobs : \/ Submit(j) \/ Revive(j) \/ Clash(j)
                        \/ \E w \in Workers : Take(w, j) \/ Settle(w, j) \/ Abandon(w, j)

Spec == Init /\ [][Next]_vars
=============================================================================
