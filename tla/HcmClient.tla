------------------------------- MODULE HcmClient -------------------------------
(***************************************************************************)
(* HCMClient against the mock HCM server: what its callers make of the       *)
(* behaviors the server plays.                                              *)
(*                                                                         *)
(* A getBalance is one HTTP call, with no retry, and hydrateBalanceFromHCM   *)
(* tries the lower-case spelling after the caller's where the two differ; the *)
(* server folds both into one balance.  The client gives up after HCM_TIMEOUT; the server does not  *)
(* notice, and the connection stays with it until its own sleep is over.     *)
(*                                                                         *)
(* Time is counted in ticks that only calls in flight see pass: whatever      *)
(* takes no time in the code happens between two ticks.                      *)
(***************************************************************************)
EXTENDS MockHcm

CONSTANTS
    Clients,            \* operations of the service that can overlap
    HcmTimeout,         \* HCM_TIMEOUT, in ticks
    ServerDelay,        \* the sleep of TIMEOUT, in ticks
    None                \* no connection, no dimension

ASSUME NoneAssumption == None \notin Callers \cup Dimensions
ASSUME TicksAssumption == HcmTimeout \in Nat \ {0} /\ ServerDelay \in Nat \ {0}

VARIABLES
    op,                 \* client -> the operation it is in
    dim,                \* client -> the dimension asked for
    attempt,            \* client -> the candidate spelling it has come to
    conn,               \* client -> the connection it waits on, or None
    age,                \* client -> ticks since its call was sent
    left,               \* connection -> ticks left to sleep
    told,               \* client -> outcome of its latest operation
    since,              \* history: client -> the behavior since it began, or "several"
    refused             \* history: failures paid for since the behavior was set

clientVars == <<op, dim, attempt, conn, age, left, told, since, refused>>

ClientInit ==
    /\ Init
    /\ op = [p \in Clients |-> "idle"]
    /\ dim = [p \in Clients |-> None]
    /\ attempt = [p \in Clients |-> 0]
    /\ conn = [p \in Clients |-> None]
    /\ age = [p \in Clients |-> 0]
    /\ left = [c \in Callers |-> 0]
    /\ told = [p \in Clients |-> "none"]
    /\ since = [p \in Clients |-> "none"]
    /\ refused = 0

Waiting(p) == conn[p] # None

-----------------------------------------------------------------------------
(* Operations.                                                               *)

\* getBalance for sync and drift detection, or hydrateBalanceFromHCM for an
\* employee ID in lower case or with capitals.
Hydrations == {"hydrateLower", "hydrateCapitals"}
Operations == {"balance"} \cup Hydrations

Start(p, kind, d) ==
    /\ op[p] = "idle"
    /\ op' = [op EXCEPT ![p] = kind]
    /\ dim' = [dim EXCEPT ![p] = d]
    /\ attempt' = [attempt EXCEPT ![p] = 1]
    /\ told' = [told EXCEPT ![p] = "none"]
    /\ since' = [since EXCEPT ![p] = behavior]
    /\ UNCHANGED <<vars, conn, age, left, refused>>

\* Mutant: hydration gives up with its first candidate.
CandidatesOne(kind) == 1

\* The calls an operation may make: the lower-case candidate is one more only if
\* it differs from the ID.
Candidates(kind) == IF kind = "hydrateCapitals" THEN 2 ELSE 1

End(p, outcome) ==
    /\ op' = [op EXCEPT ![p] = "idle"]
    /\ dim' = [dim EXCEPT ![p] = None]
    /\ attempt' = [attempt EXCEPT ![p] = 0]
    /\ told' = [told EXCEPT ![p] = outcome]

\* What HCMRetryService would make of a failure: 4xx is permanent, 5xx and a
\* timeout (0) are transient.
Class(code) == IF code \in 400..499 THEN "permanent" ELSE "transient"

\* A call failed: the error goes to the caller, except that hydration logs it,
\* tries its next candidate, if any, and returns null after the last.  A refusal
\* counts for as many failures as the ID has spellings to try.
CallFailed(p, code) ==
    \/ /\ attempt[p] < Candidates(op[p])
       /\ attempt' = [attempt EXCEPT ![p] = @ + 1]
       /\ UNCHANGED <<op, dim, told, refused>>
    \/ /\ attempt[p] >= Candidates(op[p])
       /\ End(p, IF op[p] \in Hydrations THEN "null" ELSE Class(code))
       /\ refused' = IF Counting /\ since[p] = behavior /\ dim[p] \in DOMAIN available
                     THEN refused + (IF op[p] = "hydrateCapitals" THEN 2 ELSE 1) ELSE refused

\* The call's answer arrived.
Answered(p, code) ==
    \/ code = 200 /\ End(p, "ok") /\ UNCHANGED refused
    \/ code # 200 /\ CallFailed(p, code)

\* GET /hcm/balances/...: answered at once, or left sleeping at the server.
Send(p, c) ==
    /\ op[p] \in Operations /\ ~Waiting(p)
    /\ GetBalance(c, dim[p])
    /\ IF sleeping'[c] = NoOp
       THEN Answered(p, status'[c]) /\ UNCHANGED <<conn, left>>
       ELSE /\ conn' = [conn EXCEPT ![p] = c]
            /\ left' = [left EXCEPT ![c] = ServerDelay]
            /\ UNCHANGED <<op, dim, attempt, told, refused>>
    /\ age' = [age EXCEPT ![p] = 0]
    /\ UNCHANGED since

\* pingHealth: GET /hcm/admin/health knows no behavior.
CheckHealth(p) ==
    /\ op[p] = "idle"
    /\ told' = [told EXCEPT ![p] = "up"]
    /\ UNCHANGED <<vars, op, dim, attempt, conn, age, left, since, refused>>

\* submitTimeOffRequest, whose payload has no requestedDays (400), and
\* batchGetBalances and validateDimensions, whose routes the server does not
\* have (404).  Nothing in the service calls them; the outcome names the one
\* that was refused.
Unserved == {"submission", "batch", "validation"}
CallUnserved(p, kind) ==
    /\ op[p] = "idle"
    /\ since' = [since EXCEPT ![p] = behavior]
    /\ told' = [told EXCEPT ![p] = kind]
    /\ UNCHANGED <<vars, op, dim, attempt, conn, age, left, refused>>

-----------------------------------------------------------------------------
(* Time.                                                                     *)

\* Mutant: the client waits for as long as the server sleeps.
PatientlyExpired(p) == Waiting(p) /\ age[p] > ServerDelay

Expired(p) == Waiting(p) /\ age[p] = HcmTimeout

\* rxjs timeout(): a TimeoutError for the caller.
GiveUp(p) ==
    /\ Expired(p)
    /\ conn' = [conn EXCEPT ![p] = None]
    /\ CallFailed(p, 0)
    /\ UNCHANGED <<vars, age, left, since>>

\* The server wakes: the answer reaches the client that still waits.
Wake(c) ==
    /\ left[c] = 0
    /\ Land(c)
    /\ IF \E p \in Clients : conn[p] = c
       THEN LET p == CHOOSE q \in Clients : conn[q] = c
            IN  Answered(p, status'[c]) /\ conn' = [conn EXCEPT ![p] = None]
       ELSE UNCHANGED <<op, dim, attempt, told, refused, conn>>
    /\ UNCHANGED <<age, left, since>>

\* Timers that are due fire before time goes on.
Tick ==
    /\ \E c \in Callers : ~Free(c)
    /\ \A c \in Callers : ~Free(c) => left[c] > 0
    /\ \A p \in Clients : ~Expired(p)
    /\ age' = [p \in Clients |-> IF Waiting(p) THEN age[p] + 1 ELSE 0]
    /\ left' = [c \in Callers |-> IF Free(c) THEN 0 ELSE left[c] - 1]
    /\ UNCHANGED <<vars, op, dim, attempt, conn, told, since, refused>>

\* set-behavior: what began under another behavior has seen several.
Switch(b) ==
    /\ SetBehavior(b)
    /\ since' = [p \in Clients |-> IF op[p] # "idle" THEN "several" ELSE since[p]]
    /\ refused' = 0
    /\ UNCHANGED <<op, dim, attempt, conn, age, left, told>>

-----------------------------------------------------------------------------
Progress(p) == GiveUp(p) \/ \E c \in Callers : Send(p, c)

ClientNext ==
    \/ \E p \in Clients :
          \/ \E kind \in Operations, d \in Dimensions : Start(p, kind, d)
          \/ Progress(p)
          \/ CheckHealth(p)
          \/ \E kind \in Unserved : CallUnserved(p, kind)
    \/ \E c \in Callers : Wake(c)
    \/ Tick
    \/ \E b \in Behaviors : Switch(b)

ClientSpec == ClientInit /\ [][ClientNext]_<<vars, clientVars>>

-----------------------------------------------------------------------------
(* Properties.                                                               *)

\* The failures a counting behavior plays are all the service can suffer from
\* it: an operation that fails has used up one of them per spelling there was to
\* try, however many operations compete for them and whichever of them returns
\* null or throws.  PARTIAL_FAILURE's three refuse three lower-case hydrations of
\* a balance the HCM has, but only one of an ID with capitals.
FailuresPaid == refused <= FailFirst(behavior)

\* The client's patience is shorter than the server's sleep: an operation that
\* lived under TIMEOUT from beginning to end is never told a balance, also when
\* it makes two calls, one per spelling, and when other calls occupy the server.
TimeoutsNeverAnswered ==
    \A p \in Clients :
       op[p] = "idle" /\ since[p] = "TIMEOUT" => told[p] # "ok"

=============================================================================
