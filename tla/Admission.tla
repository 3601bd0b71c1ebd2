----------------------------- MODULE Admission -----------------------------
(***************************************************************************)
(* Which transfers run and on how many connections: the budget of the      *)
(* dispatcher (streamsFor, clampToGranted, fits, resize, release), the     *)
(* lanes of pump, and what dialTransfers gets from the server.             *)
(*                                                                         *)
(* pump reads the rows and the budget first and looks at row after row;    *)
(* settings change, runners hand connections back and rows go meanwhile.   *)
(* A step is one read of the database, one critical section of d.mu or one *)
(* dial.  Rows are numbered in claim order.  The queue-wide pause and the  *)
(* shutdown are Dispatcher's; how a row's bytes arrive is Engines'.        *)
(***************************************************************************)
EXTENDS Integers, FiniteSets, FiniteSetsExt

CONSTANTS
  Ids,          \* transfer rows, in the order they are claimed
  Sites,
  MaxAttempts,  \* maxAttempts
  Scenes        \* the instances checked; every behaviour belongs to one

Dirs == {"download", "upload"}

\* What the settings say: connections in all, per site by default and by the
\* site's own setting (0: none), and lanes per large file.
Budget == [global : Nat \ {0}, def : Nat \ {0}, own : [Sites -> Nat], lanes : [Dirs -> Nat]]

\* A scene: the rows there may be, the budgets the settings may be given, how
\* many connections a server grants one dialling row and all of them, which
\* rows come again for ever, which never end, and how much goes wrong.
ASSUME AdmissionAssumption ==
  /\ Ids \subseteq Nat \ {0} /\ IsFiniteSet(Ids) /\ MaxAttempts \in Nat \ {0}
  /\ \A s \in Scenes :
       /\ s.row \in [Ids -> [site : Sites, dir : Dirs, wide : BOOLEAN, dst : Nat]]
       /\ s.budgets \subseteq Budget /\ s.queued \subseteq Ids
       /\ s.stream \subseteq {i \in Ids : ~s.row[i].wide}
       /\ s.endless \subseteq Ids
       /\ s.burst \in Nat \ {0} /\ s.limit \in Nat \ {0}
       /\ s.changes \in Nat /\ s.faults \in Nat /\ s.withdraws \in BOOLEAN

VARIABLES
  scene,
  budget,       \* the settings
  changes,      \* changes of the settings so far
  faults,       \* refusals and failures so far
  \* --- rows ---
  state, attempt, backoff,
  plan,         \* a chunk plan with transferred bytes
  \* --- under d.mu ---
  slots,        \* connections reserved per registered row (0: not registered)
  perSite, activeN,
  granted,      \* the ceiling a site was seen to enforce (0: not observed)
  fresh,        \* sites whose observation is younger than grantTTL
  \* --- pump ---
  pump,         \* where the pass is, what it read, the lanes it blocked
  \* --- runTransfer, per row ---
  at, asked, conns

rowVars == <<state, attempt, backoff, plan>>
memVars == <<slots, perSite, activeN, granted, fresh>>
runVars == <<at, asked, conns>>
vars == <<scene, budget, changes, faults, rowVars, memVars, pump, runVars>>

SiteOf(i) == scene.row[i].site
DstOf(i) == scene.row[i].dst
LaneGroup(i) == <<SiteOf(i), scene.row[i].dir>>
Registered == {i \in Ids : slots[i] > 0}
Frame == scene' = scene

Idle == [at |-> "idle", todo |-> {}, global |-> 0, def |-> 0, own |-> [s \in Sites |-> -1],
         blocked |-> {}, want |-> 0]
-----------------------------------------------------------------------------
(* The budget.                                                             *)

\* A large file asks for its lanes, no more than both caps allow; one lane is
\* the linear engine.
StreamsFor(i, siteCap) ==
  LET lanes == budget.lanes[scene.row[i].dir]
      n == Min({lanes, budget.global, siteCap})
  IN IF scene.row[i].wide /\ n >= 2 THEN n ELSE 1

\* Mutant: one connection is taken for an answer.
ClampToOne(s, streams) ==
  IF granted[s] = 0 \/ s \notin fresh THEN streams ELSE Min({streams, granted[s]})

\* A fresh observation lowers the request, never a large file's below two.
ClampToGranted(s, streams) ==
  IF granted[s] = 0 \/ s \notin fresh \/ streams <= granted[s] THEN streams
  ELSE IF granted[s] < 2 THEN 2 ELSE granted[s]

\* Mutant: one more than the budget has.
FitsAlmost(s, streams) ==
  activeN < pump.global /\ perSite[s] < pump.own[s]

\* The full request, or nothing.
Fits(s, streams) ==
  activeN + streams <= pump.global /\ perSite[s] + streams <= pump.own[s]

\* Mutant: what was asked for is handed back.
DropAsked(i) ==
  LET s == SiteOf(i)  left == perSite[s] - asked[i] IN
  /\ slots' = [slots EXCEPT ![i] = 0]
  /\ perSite' = [perSite EXCEPT ![s] = left] /\ activeN' = activeN - asked[i]
  /\ granted' = [granted EXCEPT ![s] = IF left <= 0 THEN 0 ELSE @]
  /\ fresh' = IF left <= 0 THEN fresh \ {s} ELSE fresh

\* release; a site left idle is asked for its full width again.
DropReservation(i) ==
  LET s == SiteOf(i)  left == perSite[s] - slots[i] IN
  /\ slots' = [slots EXCEPT ![i] = 0]
  /\ perSite' = [perSite EXCEPT ![s] = left] /\ activeN' = activeN - slots[i]
  /\ granted' = [granted EXCEPT ![s] = IF left <= 0 THEN 0 ELSE @]
  /\ fresh' = IF left <= 0 THEN fresh \ {s} ELSE fresh
-----------------------------------------------------------------------------
(* pump.                                                                   *)

\* The rows and the caps, as they are now.
PumpList ==
  /\ pump.at = "idle"
  /\ LET due == {i \in Ids : state[i] = "pending" /\ ~backoff[i]}
     IN /\ due # {}
        /\ pump' = [Idle EXCEPT !.at = "look", !.todo = due,
                                !.global = budget.global, !.def = budget.def]
  /\ UNCHANGED <<budget, changes, faults, rowVars, memVars, runVars>> /\ Frame

\* The next row of the pass, and the pass without it.
First == Min(pump.todo)
Onward(blocked) ==
  IF pump.todo = {First} THEN Idle
  ELSE [pump EXCEPT !.at = "look", !.todo = @ \ {First}, !.blocked = blocked]
Skip == pump' = Onward(pump.blocked)

\* Mutant: a row that found no room holds up nobody.
PassBlocked(i) == FALSE

Blocked(i) == LaneGroup(i) \in pump.blocked

\* A row of a blocked lane is passed over; the others are given their width,
\* from settings read again and a site's cap read once a pass.
PumpLook ==
  /\ pump.at = "look"
  /\ LET i == First  s == SiteOf(i)
         cap == IF pump.own[s] >= 0 THEN pump.own[s]
                ELSE IF budget.own[s] > 0 THEN budget.own[s] ELSE pump.def
     IN IF Blocked(i) THEN Skip
        ELSE pump' = [pump EXCEPT !.at = "admit", !.own[s] = cap, !.want = StreamsFor(i, cap)]
  /\ UNCHANGED <<budget, changes, faults, rowVars, memVars, runVars>> /\ Frame

\* Under d.mu: a registered row is passed over, one without room blocks its
\* lane, one whose file is being written is passed over, the rest is registered.
PumpAdmit ==
  LET i == First  s == SiteOf(i)  n == ClampToGranted(s, pump.want) IN
  /\ pump.at = "admit"
  /\ IF i \in Registered THEN Skip /\ UNCHANGED memVars
     ELSE
       /\ granted' = [granted EXCEPT ![s] = IF s \in fresh THEN @ ELSE 0] /\ fresh' = fresh
       /\ \/ /\ ~Fits(s, n)
             /\ pump' = Onward(pump.blocked \cup {LaneGroup(i)})
             /\ UNCHANGED <<slots, perSite, activeN>>
          \/ /\ Fits(s, n) /\ \E j \in Registered : DstOf(j) = DstOf(i)
             /\ Skip /\ UNCHANGED <<slots, perSite, activeN>>
          \/ /\ Fits(s, n) /\ \A j \in Registered : DstOf(j) # DstOf(i)
             /\ slots' = [slots EXCEPT ![i] = n]
             /\ perSite' = [perSite EXCEPT ![s] = @ + n] /\ activeN' = activeN + n
             /\ pump' = [pump EXCEPT !.at = "claim"]
  /\ UNCHANGED <<budget, changes, faults, rowVars, runVars>> /\ Frame

\* ClaimPending, and the runner starts.
PumpClaim ==
  LET i == First IN
  /\ pump.at = "claim" /\ state[i] = "pending"
  /\ state' = [state EXCEPT ![i] = "active"]
  /\ at' = [at EXCEPT ![i] = "dial"] /\ asked' = [asked EXCEPT ![i] = slots[i]] /\ conns' = conns
  /\ Skip
  /\ UNCHANGED <<budget, changes, faults, attempt, backoff, plan, memVars>> /\ Frame

PumpLoseClaim ==
  LET i == First IN
  /\ pump.at = "claim" /\ state[i] # "pending"
  /\ DropReservation(i) /\ Skip
  /\ UNCHANGED <<budget, changes, faults, rowVars, runVars>> /\ Frame

Pump == PumpList \/ PumpLook \/ PumpAdmit \/ PumpClaim \/ PumpLoseClaim
-----------------------------------------------------------------------------
(* runTransfer.                                                            *)

Goto(i, a) == at' = [at EXCEPT ![i] = a]
RowsOf(s) == {i \in Ids : SiteOf(i) = s}

\* The connections f counts for the rows of a set, each one a pair.
Counted(f, S) == UNION {{i} \X (1..f[i]) : i \in S}
Open(s) == Cardinality(Counted(conns, RowsOf(s)))

\* The server has no more connections, for this row or for anybody.
Full(i) == conns[i] >= scene.burst \/ Open(SiteOf(i)) >= scene.limit

DialOne(i) ==
  /\ at[i] = "dial" /\ ~Full(i)
  /\ conns' = [conns EXCEPT ![i] = @ + 1]
  /\ Goto(i, IF conns[i] + 1 = asked[i] THEN "plan" ELSE "dial")
  /\ UNCHANGED <<budget, changes, faults, rowVars, memVars, pump, asked>> /\ Frame

\* No further connection, because the server refuses it or the row was stopped.
\* The first is mandatory, the others are not.
DialRefused(i) ==
  LET faultless == Full(i) \/ state[i] # "active" IN
  /\ at[i] = "dial"
  /\ faultless \/ faults < scene.faults
  /\ faults' = IF faultless THEN faults ELSE faults + 1
  /\ Goto(i, IF conns[i] = 0 THEN "error" ELSE "resize")
  /\ UNCHANGED <<budget, changes, rowVars, memVars, pump, asked, conns>> /\ Frame

\* Fewer than asked for: the rest is handed back and the number remembered.
Resize(i) ==
  LET s == SiteOf(i)  diff == slots[i] - conns[i] IN
  /\ at[i] = "resize"
  /\ slots' = [slots EXCEPT ![i] = conns[i]]
  /\ perSite' = [perSite EXCEPT ![s] = @ - diff] /\ activeN' = activeN - diff
  /\ granted' = [granted EXCEPT ![s] = conns[i]] /\ fresh' = fresh \cup {s}
  /\ Goto(i, "plan")
  /\ UNCHANGED <<budget, changes, faults, rowVars, pump, asked, conns>> /\ Frame

\* A part-transferred file waits for two connections; otherwise one connection
\* means the linear engine, which drops the plan.
ChunkPlan(i) ==
  LET chunked == asked[i] >= 2 /\ conns[i] >= 2 IN
  /\ at[i] = "plan"
  /\ IF asked[i] >= 2 /\ conns[i] < 2 /\ plan[i] THEN Goto(i, "error") /\ plan' = plan
     ELSE Goto(i, "copy") /\ plan' = [plan EXCEPT ![i] = chunked]
  /\ UNCHANGED <<budget, changes, faults, state, attempt, backoff, memVars, pump, asked, conns>>
  /\ Frame

Completes(i) ==
  /\ at[i] = "copy" /\ i \notin scene.endless
  /\ state' = [state EXCEPT ![i] = "completed"] /\ plan' = [plan EXCEPT ![i] = FALSE]
  /\ Goto(i, "ended")
  /\ UNCHANGED <<budget, changes, faults, attempt, backoff, memVars, pump, asked, conns>> /\ Frame

\* The engine returns an error of its own, or because the row was stopped.
CopyFails(i) ==
  /\ at[i] = "copy"
  /\ state[i] # "active" \/ faults < scene.faults
  /\ faults' = IF state[i] = "active" THEN faults + 1 ELSE faults
  /\ Goto(i, "error")
  /\ UNCHANGED <<budget, changes, rowVars, memVars, pump, asked, conns>> /\ Frame

\* finishWithError: retried, failed, or left as the user made it.
Settles(i) ==
  /\ at[i] = "error"
  /\ \/ /\ state[i] = "active" /\ attempt[i] + 1 < MaxAttempts
        /\ state' = [state EXCEPT ![i] = "pending"] /\ attempt' = [attempt EXCEPT ![i] = @ + 1]
        /\ backoff' = [backoff EXCEPT ![i] = TRUE]
     \/ /\ state[i] = "active" /\ state' = [state EXCEPT ![i] = "failed"]
        /\ UNCHANGED <<attempt, backoff>>
     \/ state[i] # "active" /\ UNCHANGED <<state, attempt, backoff>>
  /\ Goto(i, "ended")
  /\ UNCHANGED <<budget, changes, faults, plan, memVars, pump, asked, conns>> /\ Frame

\* The deferred calls: the connections close, then the reservation goes.
CloseAll(i) ==
  /\ at[i] = "ended"
  /\ conns' = [conns EXCEPT ![i] = 0] /\ Goto(i, "release")
  /\ UNCHANGED <<budget, changes, faults, rowVars, memVars, pump, asked>> /\ Frame

Release(i) ==
  /\ at[i] = "release"
  /\ DropReservation(i)
  /\ Goto(i, "none") /\ asked' = [asked EXCEPT ![i] = 0] /\ conns' = conns
  /\ UNCHANGED <<budget, changes, faults, rowVars, pump>> /\ Frame

RunTransfer(i) ==
  \/ DialOne(i) \/ DialRefused(i) \/ Resize(i) \/ ChunkPlan(i) \/ Completes(i) \/ CopyFails(i)
  \/ Settles(i) \/ CloseAll(i) \/ Release(i)
-----------------------------------------------------------------------------
(* The user, and time.                                                     *)

BackoffElapses(i) ==
  /\ backoff[i]
  /\ backoff' = [backoff EXCEPT ![i] = FALSE]
  /\ UNCHANGED <<budget, changes, faults, state, attempt, plan, memVars, pump, runVars>> /\ Frame

\* grantTTL has passed.
GrantExpires(s) ==
  /\ s \in fresh
  /\ fresh' = fresh \ {s}
  /\ UNCHANGED <<budget, changes, faults, rowVars, slots, perSite, activeN, granted, pump, runVars>>
  /\ Frame

SetBudget ==
  /\ changes < scene.changes /\ changes' = changes + 1
  /\ \E b \in scene.budgets : b # budget /\ budget' = b
  /\ UNCHANGED <<faults, rowVars, memVars, pump, runVars>> /\ Frame

\* A row is added; a stream of rows is one that is added again and again.
Enqueue(i) ==
  /\ state[i] = "none" \/ (i \in scene.stream /\ state[i] \in {"completed", "failed"})
  /\ i \notin Registered
  /\ state' = [state EXCEPT ![i] = "pending"] /\ attempt' = [attempt EXCEPT ![i] = 0]
  /\ plan' = [plan EXCEPT ![i] = FALSE]
  /\ UNCHANGED <<budget, changes, faults, backoff, memVars, pump, runVars>> /\ Frame

\* A row is cancelled, or paused by hand.
Withdraw(i) ==
  /\ scene.withdraws /\ state[i] \in {"pending", "active"}
  /\ state' = [state EXCEPT ![i] = "cancelled"] /\ backoff' = [backoff EXCEPT ![i] = FALSE]
  /\ UNCHANGED <<budget, changes, faults, attempt, plan, memVars, pump, runVars>> /\ Frame

Environment ==
  \/ SetBudget
  \/ \E i \in Ids : BackoffElapses(i) \/ Enqueue(i) \/ Withdraw(i)
  \/ \E s \in Sites : GrantExpires(s)

Init ==
  /\ scene \in Scenes /\ budget \in scene.budgets /\ changes = 0 /\ faults = 0
  /\ state = [i \in Ids |-> IF i \in scene.queued THEN "pending" ELSE "none"]
  /\ attempt = [i \in Ids |-> 0] /\ backoff = [i \in Ids |-> FALSE]
  /\ plan = [i \in Ids |-> FALSE]
  /\ slots = [i \in Ids |-> 0] /\ perSite = [s \in Sites |-> 0] /\ activeN = 0
  /\ granted = [s \in Sites |-> 0] /\ fresh = {}
  /\ pump = Idle
  /\ at = [i \in Ids |-> "none"] /\ asked = [i \in Ids |-> 0] /\ conns = [i \in Ids |-> 0]

Next == Pump \/ (\E i \in Ids : RunTransfer(i)) \/ Environment

\* pump comes round every two seconds; a runner goes on, and its engine ends,
\* unless the scene says otherwise; a retry's deadline passes.
Fairness ==
  /\ WF_vars(Pump)
  /\ \A i \in Ids : WF_vars(RunTransfer(i)) /\ WF_vars(BackoffElapses(i))

Spec == Init /\ [][Next]_vars /\ Fairness
-----------------------------------------------------------------------------
(* Properties.                                                             *)

\* Types; and both counters are the sums of the reservations they count, so
\* that they come back to zero, whatever resize and release take away
\* (dispatcher.go:532-543, :630-648).
TypeOK ==
  /\ scene \in Scenes /\ budget \in scene.budgets
  /\ state \in [Ids -> {"none", "pending", "active", "completed", "failed", "cancelled"}]
  /\ \A i \in Ids : attempt[i] \in 0..(MaxAttempts - 1) /\ slots[i] \in Nat /\ conns[i] \in Nat
  /\ activeN = Cardinality(Counted(slots, Ids))
  /\ \A s \in Sites : perSite[s] = Cardinality(Counted(slots, RowsOf(s))) /\ granted[s] \in Nat
  /\ fresh \subseteq Sites

\* The caps a pass may find for a site: its own, or the default if it had none
\* when it was read; the default may be of an earlier setting (dispatcher.go:271, :293-299).
PassCaps(s) ==
  {b.own[s] : b \in {b \in scene.budgets : b.own[s] > 0}}
    \cup (IF \E b \in scene.budgets : b.own[s] = 0 THEN {b.def : b \in scene.budgets} ELSE {})

\* No server sees more connections than the budget: what is open is reserved,
\* and what is reserved is within a cap the user has set, though pump decides
\* with caps it read earlier and a runner still closes its connections after
\* its row was queued again (dispatcher.go:302-303, :660-664).
CapsHold ==
  /\ \A i \in Ids : conns[i] <= slots[i]
  /\ \E b \in scene.budgets : activeN <= b.global
  /\ \A s \in Sites : Open(s) <= perSite[s] /\ \E cap \in PassCaps(s) : perSite[s] <= cap

TwoAllowed(i) ==
  /\ \A b \in scene.budgets : b.global >= 2 /\ b.lanes[scene.row[i].dir] >= 2
  /\ \A cap \in PassCaps(SiteOf(i)) : cap >= 2

\* "A chunked transfer that is part way through must never be dropped onto the
\* linear path just because the connections were not there this time": as long
\* as the settings leave it two connections, a plan goes only with the finished
\* file, whatever the server grants (dispatcher.go:783-790, :393-398).
PlanKept ==
  [][\A i \in Ids :
       plan[i] /\ ~plan'[i] /\ TwoAllowed(i) => "completed" \in {state[i], state'[i]}]_vars

\* "Waiting can never become starving": a row that is waiting is claimed in the
\* end, however wide it is, whatever the server grants, and though rows behind
\* it in its lane keep coming (dispatcher.go:275-278, :436-437).
EveryRowGetsItsTurn == \A i \in Ids : state[i] = "pending" ~> state[i] # "pending"
=============================================================================
