----------------------------- MODULE CronEngine -----------------------------
(***************************************************************************)
(* The cron engine of internal/scheduler/scheduler.go: ParseCron,          *)
(* RegisterCronJob and the cron loop of one scheduler process.  The map of *)
(* definitions lives in the process's memory and every instance is a new   *)
(* job, so the engines of two schedulers share nothing and one is enough.  *)
(*                                                                         *)
(* Minutes are numbered; Calendar gives each its five cron fields.  The    *)
(* clock counts ticks, TicksPerMinute to the minute, so that a pass may    *)
(* end in a later minute than the one it began in.                         *)
(***************************************************************************)
EXTENDS Integers, Sequences, FiniteSetsExt

CONSTANTS Definitions,     \* requests to register a cron job
          Expression,      \* Expression[d]: its five fields
          Calendar,        \* Calendar[m]: minute, hour, day, month, weekday
          TicksPerMinute,
          MaxIterations,   \* how far ParseCron searches (366 * 24 * 60 minutes)
          LastMinute,      \* bound: the clock stops at the end of this minute
          MaxFailures      \* bound: failing calls

\* One element of a comma-separated field: "*", "*/a", "a-b" or "a".
Items == [kind : {"star", "step", "range", "number"}, a : Nat, b : Nat]
Star == [kind |-> "star", a |-> 0, b |-> 0]

ASSUME CronAssumption ==
    /\ TicksPerMinute \in Nat \ {0} /\ MaxIterations \in Nat \ {0}
    /\ LastMinute \in Nat /\ MaxFailures \in Nat
    /\ Expression \in [Definitions -> [1 .. 5 -> Seq(Items) \ {<<>>}]]
    /\ Calendar \in [0 .. LastMinute + MaxIterations -> [1 .. 5 -> Nat]]

VARIABLES clock,     \* ticks
          phase,     \* when within a minute the loop's ticker fires
          tick,      \* a tick waits in the ticker's channel, which holds one
          nextRun,   \* nextRun[d]: CronNextRun of d in c.cronJobs, or Unregistered
          request,   \* request[d]: RegisterCronJob of d
          pass,      \* the pass of processCronJobs
          failures,  \* failing calls so far
          fired,     \* history: fired[d][m], instances enqueued for minute m
          backlog,   \* history: minutes that began while d had an earlier one open
          excused    \* history: definitions with a lost reply or no next run

engineVars == <<nextRun, request, pass>>
vars == <<clock, phase, tick, engineVars, failures, fired, backlog, excused>>

NotFound == -1       \* time.Time{}, which ParseCron returns with an error
Unregistered == -2
NoDefinition == "no definition"
Minutes == 0 .. LastMinute + MaxIterations
MinuteOf(t) == t \div TicksPerMinute
Horizon == (LastMinute + 1) * TicksPerMinute - 1

-----------------------------------------------------------------------------
(* The parser *)

\* What each branch of the code accepts.  A step or a range counts only alone:
\* in a list just the plain numbers are compared.  "*/0" divides by zero, which
\* ends the registration as an expression without a match does.
matchCronField(field, value) ==
    \/ field = <<Star>>
    \/ /\ Len(field) = 1 /\ field[1].kind = "step"
       /\ field[1].a > 0 /\ value % field[1].a = 0
    \/ /\ Len(field) = 1 /\ field[1].kind = "range"
       /\ field[1].a <= value /\ value <= field[1].b
    \/ /\ field[1].kind # "step"
       /\ \E i \in 1 .. Len(field) : field[i].kind = "number" /\ field[i].a = value

Matches(d, m) == \A f \in 1 .. 5 : matchCronField(Expression[d][f], Calendar[m][f])

Candidates(d, from) == {m \in from + 1 .. from + MaxIterations : Matches(d, m)}

\* Mutants of ParseCron: the search starts in the minute it is called in; it goes
\* on after a match.
ParseCronFromNow(d, from) ==
    IF Matches(d, from) THEN from
    ELSE IF Candidates(d, from) = {} THEN NotFound ELSE Min(Candidates(d, from))

ParseCronLast(d, from) == IF Candidates(d, from) = {} THEN NotFound ELSE Max(Candidates(d, from))

\* The first matching minute after minute from, within the search limit.
ParseCron(d, from) == IF Candidates(d, from) = {} THEN NotFound ELSE Min(Candidates(d, from))

-----------------------------------------------------------------------------
NoRequest == [pc |-> "new", next |-> Unregistered]
NoPass == [pc |-> "idle", now |-> 0, todo |-> {}, job |-> NoDefinition]
Busy == {"create", "enqueue", "next"}

\* Every variable of the cron engine keeps its type.
CronTypeOK ==
    /\ clock \in 0 .. Horizon /\ phase \in 0 .. TicksPerMinute - 1 /\ tick \in BOOLEAN
    /\ nextRun \in [Definitions -> Minutes \cup {Unregistered}]
    /\ request \in [Definitions -> [pc : {"new", "persist", "insert", "closed"},
                                  next : Minutes \cup {Unregistered}]]
    /\ pass \in [pc : {"idle", "loop"} \cup Busy, now : 0 .. Horizon,
                 todo : SUBSET Definitions, job : Definitions \cup {NoDefinition}]
    /\ failures \in 0 .. MaxFailures
    /\ fired \in [Definitions -> [Minutes -> Nat]]
    /\ backlog \in [Definitions -> SUBSET Minutes]
    /\ excused \subseteq Definitions

Init ==
    /\ clock = 0 /\ phase \in 0 .. TicksPerMinute - 1 /\ tick = FALSE
    /\ nextRun = [d \in Definitions |-> Unregistered]
    /\ request = [d \in Definitions |-> NoRequest]
    /\ pass = NoPass
    /\ failures = 0
    /\ fired = [d \in Definitions |-> [m \in Minutes |-> 0]]
    /\ backlog = [d \in Definitions |-> {}]
    /\ excused = {}

Fails == failures < MaxFailures /\ failures' = failures + 1

-----------------------------------------------------------------------------
(* RegisterCronJob *)

\* The expression is parsed, or refused.
RegisterParse(d) ==
    /\ request[d].pc = "new"
    /\ LET n == ParseCron(d, MinuteOf(clock)) IN
         request' = [request EXCEPT ![d] =
                       IF n = NotFound THEN [@ EXCEPT !.pc = "closed"]
                                       ELSE [pc |-> "persist", next |-> n]]
    /\ UNCHANGED <<clock, phase, tick, nextRun, pass, failures, fired, backlog, excused>>

\* CreateJob stores the definition's row, which no code ever reads back.
RegisterPersist(d) ==
    /\ request[d].pc = "persist"
    /\ request' = [request EXCEPT ![d].pc = "insert"]
    /\ UNCHANGED <<clock, phase, tick, nextRun, pass, failures, fired, backlog, excused>>

RegisterFails(d) ==
    /\ request[d].pc = "persist"
    /\ Fails
    /\ request' = [request EXCEPT ![d].pc = "closed"]
    /\ UNCHANGED <<clock, phase, tick, nextRun, pass, fired, backlog, excused>>

\* c.cronJobs[job.ID] = job, under cronMu.
RegisterInsert(d) ==
    /\ request[d].pc = "insert"
    /\ request' = [request EXCEPT ![d].pc = "closed"]
    /\ nextRun' = [nextRun EXCEPT ![d] = request[d].next]
    /\ UNCHANGED <<clock, phase, tick, pass, failures, fired, backlog, excused>>

-----------------------------------------------------------------------------
(* The cron loop *)

\* The ticker's channel is read; the map is copied under cronMu, then now is read.
PassStart ==
    /\ pass.pc = "idle" /\ tick
    /\ tick' = FALSE
    /\ pass' = [pc |-> "loop", now |-> clock, job |-> NoDefinition,
                todo |-> {d \in Definitions : nextRun[d] # Unregistered}]
    /\ UNCHANGED <<clock, phase, nextRun, request, failures, fired, backlog, excused>>

Due(d) == nextRun[d] * TicksPerMinute < pass.now

\* CronNextRun.Before(now), for one job of the list; NewJob makes the instance.
PassCheck(d) ==
    /\ pass.pc = "loop" /\ d \in pass.todo
    /\ pass' = [pass EXCEPT !.pc = IF Due(d) THEN "create" ELSE "loop",
                            !.job = IF Due(d) THEN d ELSE NoDefinition,
                            !.todo = @ \ {d}]
    /\ UNCHANGED <<clock, phase, tick, nextRun, request, failures, fired, backlog, excused>>

\* scheduleCronInstance: CreateJob ...
PassCreate ==
    /\ pass.pc = "create"
    /\ pass' = [pass EXCEPT !.pc = "enqueue"]
    /\ UNCHANGED <<clock, phase, tick, nextRun, request, failures, fired, backlog, excused>>

\* ... Enqueue ...
PassEnqueue ==
    /\ pass.pc = "enqueue"
    /\ fired' = [fired EXCEPT ![pass.job][nextRun[pass.job]] = @ + 1]
    /\ pass' = [pass EXCEPT !.pc = "next"]
    /\ UNCHANGED <<clock, phase, tick, nextRun, request, failures, backlog, excused>>

NextJob == pass' = [pass EXCEPT !.pc = "loop", !.job = NoDefinition]

\* Mutant of PassNext: the result of a failed ParseCron is used.
PassNextUnchecked ==
    /\ pass.pc = "next"
    /\ nextRun' = [nextRun EXCEPT ![pass.job] = ParseCron(pass.job, MinuteOf(clock))]
    /\ NextJob
    /\ UNCHANGED <<clock, phase, tick, request, failures, fired, backlog, excused>>

\* ... and the next run after the time it is by now.  Without one the old value stays.
PassNext ==
    /\ pass.pc = "next"
    /\ LET n == ParseCron(pass.job, MinuteOf(clock)) IN
         /\ nextRun' = IF n = NotFound THEN nextRun ELSE [nextRun EXCEPT ![pass.job] = n]
         /\ excused' = IF n = NotFound THEN excused \cup {pass.job} ELSE excused
    /\ NextJob
    /\ UNCHANGED <<clock, phase, tick, request, failures, fired, backlog>>

\* CreateJob or Enqueue fails: the run stays due, the instance's row may stay behind.
PassFails ==
    /\ pass.pc \in {"create", "enqueue"}
    /\ Fails
    /\ NextJob
    /\ UNCHANGED <<clock, phase, tick, nextRun, request, fired, backlog, excused>>

\* Enqueue's script ran but its reply was lost.
PassEnqueueLost ==
    /\ pass.pc = "enqueue"
    /\ Fails
    /\ fired' = [fired EXCEPT ![pass.job][nextRun[pass.job]] = @ + 1]
    /\ excused' = excused \cup {pass.job}
    /\ NextJob
    /\ UNCHANGED <<clock, phase, tick, nextRun, request, backlog>>

PassDone ==
    /\ pass.pc = "loop" /\ pass.todo = {}
    /\ pass' = NoPass
    /\ UNCHANGED <<clock, phase, tick, nextRun, request, failures, fired, backlog, excused>>

-----------------------------------------------------------------------------
\* The process dies and is restarted: its map is empty, nothing fills it again.
Crash ==
    /\ phase' \in 0 .. TicksPerMinute - 1
    /\ tick' = FALSE
    /\ nextRun' = [d \in Definitions |-> Unregistered]
    /\ request' = [d \in Definitions |-> IF request[d].pc = "new" THEN request[d]
                                         ELSE [request[d] EXCEPT !.pc = "closed"]]
    /\ pass' = NoPass
    /\ UNCHANGED <<clock, failures, fired, backlog, excused>>

\* The run that d has open: in the map, or computed by a registration under way.
Open(d) == IF request[d].pc \in {"persist", "insert"} THEN request[d].next ELSE nextRun[d]

ClockTick ==
    /\ clock < Horizon
    /\ clock' = clock + 1
    /\ tick' = (tick \/ clock' % TicksPerMinute = phase)
    /\ backlog' = [d \in Definitions |->
                     IF clock' % TicksPerMinute = 0 /\ Open(d) # Unregistered
                                                    /\ Open(d) < MinuteOf(clock')
                       THEN backlog[d] \cup {MinuteOf(clock')} ELSE backlog[d]]
    /\ UNCHANGED <<phase, engineVars, failures, fired, excused>>

Next ==
    \/ \E d \in Definitions :
         \/ RegisterParse(d) \/ RegisterPersist(d) \/ RegisterFails(d) \/ RegisterInsert(d)
         \/ PassCheck(d)
    \/ PassStart \/ PassCreate \/ PassEnqueue \/ PassNext \/ PassFails \/ PassEnqueueLost
    \/ PassDone \/ Crash \/ ClockTick

Spec == Init /\ [][Next]_vars

-----------------------------------------------------------------------------
(* Properties *)

\* A matching minute yields at most one enqueued instance of its definition,
\* however long passes take and whichever calls of them fail.  The exceptions:
\* Enqueue ran but returned an error, and ParseCron found no next run.
OncePerRun ==
    \A d \in Definitions \ excused : \A m \in Minutes : fired[d][m] <= 1

\* When CronNextRun advances from one run to another, a matching minute that it
\* passes over without an instance is one that began while the earlier run was
\* still open, because the pass was slow or late or a call of it had failed.
SkipsOnlyBacklog ==
    [][\A d \in Definitions :
         nextRun[d] # Unregistered /\ nextRun'[d] # Unregistered /\ nextRun'[d] # nextRun[d]
           => \A m \in nextRun[d] + 1 .. nextRun'[d] - 1 : Matches(d, m) => m \in backlog[d]]_vars
=============================================================================
