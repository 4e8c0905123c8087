------------------------------- MODULE Runner -------------------------------
(***************************************************************************)
(* One run of the review runner in the sandbox (main in                    *)
(* packages/runner/src/runner.ts and runReview in runtime-omp.ts): its     *)
(* seats, or the one parent turn of a deep review, the recheck beside them *)
(* and the report after them, under the bound of the exec that holds the   *)
(* process.                                                                *)
(*                                                                         *)
(* Time is measured from anchorRecheckDeadline in units of half a minute.  *)
(* A seat ends as it likes until the cap the SDK was given; the SDK keeps  *)
(* a cap, and answers an abort at once.  What the process does by itself   *)
(* takes no time.  A nudge is a message and returns; it changes nothing    *)
(* here.                                                                   *)
(***************************************************************************)
EXTENDS Naturals

CONSTANTS
    Seat,       \* of a fan-out: one (quick) or two (default)
    Guard,      \* RUNNER_TIMEOUT_MS, OUTER_RUNNER_CAP_MS
    Soft,       \* the tier's wall clock
    Tail,       \* PUBLICATION_TAIL_MS
    Margin,     \* REPORT_TAIL_MARGIN_MS
    Floor       \* RECHECK_MIN_REMAINING_MS

Sane == /\ Seat # {} /\ Soft \in Nat /\ Floor \in Nat
        /\ Margin \in Nat \ {0} /\ Tail \in Nat \ {0} /\ Guard \in Nat
        /\ Tail < Guard /\ Margin < Guard

VARIABLES
    now,
    deep,       \* is it a deep review?
    proc,       \* where the process stands
    seat,       \* the seats of a fan-out
    seatEnd,    \* when their cap fires
    turn,       \* the parent turn of a deep review
    heard,      \* what its listener has heard
    turnEnd,    \* when the wait for a parked turn ends
    recheck,    \* the recheck seat
    recheckEnd,
    told,       \* recheckController.abort
    out,        \* the envelope
    exit        \* the exit code, 124 by the guard

vars == <<now, deep, proc, seat, seatEnd, turn, heard, turnEnd, recheck,
          recheckEnd, told, out, exit>>

side == <<recheck, recheckEnd, told>>
main == <<turn, heard, turnEnd>>

\* How a seat may end: with its payload, without an admissible one, by the
\* rejection of its promise, by its cap with and without a payload.
Clean  == {"payload"}
Capped == {"capped", "cappedWithPayload"}
Lost   == {"failed", "rejected"}
Usable == {"payload", "cappedWithPayload"}

TypeOK ==
    /\ now \in 0..Guard /\ deep \in BOOLEAN
    /\ proc \in {"starting", "reviewing", "failing", "rechecking", "reporting",
                 "writing", "ended"}
    /\ seat \in [Seat -> {"idle", "running"} \cup Clean \cup Capped \cup Lost]
    /\ seatEnd \in 0..Guard /\ turnEnd \in 0..Guard /\ recheckEnd \in 0..Guard
    /\ turn \in {"idle", "prompting", "waiting", "settled"}
    /\ heard \in [parked : BOOLEAN, ended : BOOLEAN, yield : {"none", "good", "bad"}]
    /\ recheck \in {"none", "running", "document", "failed", "skipped"}
    /\ told \in BOOLEAN
    /\ out \in {"none", "clean", "incomplete"}
    /\ exit \in {"none", "0", "1", "124"}

Init ==
    /\ now = 0 /\ deep \in BOOLEAN
    /\ proc = "starting"
    /\ seat = [s \in Seat |-> "idle"] /\ seatEnd = 0
    /\ turn = "idle" /\ turnEnd = 0
    /\ heard = [parked |-> FALSE, ended |-> FALSE, yield |-> "none"]
    /\ recheck = "none" /\ recheckEnd = 0 /\ told = FALSE
    /\ out = "none" /\ exit = "none"

-----------------------------------------------------------------------------

Least(a, b) == IF a < b THEN a ELSE b

\* remainingOuterMs, less what is held back.
Left(held) == IF now + held < Guard THEN Guard - now - held ELSE 0

\* A bug: a seat may use the tail.
SeatCapToTheEnd == Least(2 * Soft, Left(0))

\* seatMaxRuntimeMs.
SeatCap == Least(2 * Soft, Left(Tail))

\* currentRecheckBudget; under the floor there is no seat.
RecheckBudget == LET b == Least(Soft, Left(Tail)) IN IF b < Floor THEN 0 ELSE b

\* The input, the credentials or the session can not be had.
StartFails ==
    /\ proc = "starting"
    /\ proc' = "ended" /\ exit' = "1"
    /\ UNCHANGED <<now, deep, seat, seatEnd, main, side, out>>

\* Not asked for, no room for it, or for its assignment.
StartRecheck ==
    \/ recheck' \in {"none", "skipped"} /\ recheckEnd' = 0
    \/ RecheckBudget > 0 /\ recheck' = "running" /\ recheckEnd' = now + RecheckBudget

Dispatch ==
    /\ proc = "starting"
    /\ proc' = "reviewing"
    /\ StartRecheck
    /\ IF deep THEN turn' = "prompting" /\ UNCHANGED <<seat, seatEnd>>
               ELSE /\ seat' = [s \in Seat |-> "running"]
                    /\ seatEnd' = now + SeatCap
                    /\ UNCHANGED turn
    /\ UNCHANGED <<now, deep, heard, turnEnd, told, out, exit>>

-----------------------------------------------------------------------------
(* The fan-out.                                                            *)

\* seatOutput; the cap is what it looks at first.
SeatEnds(s) ==
    /\ seat[s] = "running"
    /\ \E how \in IF now < seatEnd THEN Clean \cup Lost ELSE Capped \cup {"rejected"} :
         seat' = [seat EXCEPT ![s] = how]
    /\ UNCHANGED <<now, deep, proc, seatEnd, main, side, out, exit>>

\* A bug: Promise.all, the first lost seat settles the wave.
WaveFailsFast ==
    \/ \A s \in Seat : seat[s] # "running"
    \/ \E s \in Seat : seat[s] \in Lost

\* Promise.allSettled.
WaveSettled == \A s \in Seat : seat[s] # "running"

\* A bug: a promise that rejects has no outcome to be counted.
StoppedOutcomes == {s \in Seat : seat[s] \in Capped \cup {"failed"}}

Stopped == {s \in Seat : seat[s] \in Capped \cup Lost}

\* Stop the recheck: there is no room to finish, or nothing to finish for.
Hurry(why) == told' = (told \/ (why /\ recheck = "running"))

\* A lost seat is fatal while another has something to publish; with nothing
\* usable the wave is stopped, and says so.
Judge ==
    /\ proc = "reviewing" /\ ~deep /\ WaveSettled
    /\ LET fatal == /\ \E s \in Seat : seat[s] \in Usable
                    /\ \E s \in Seat : seat[s] \in Lost
       IN  /\ proc' = IF fatal THEN "failing" ELSE "rechecking"
           /\ out' = IF fatal THEN "none"
                     ELSE IF Stopped = {} THEN "clean" ELSE "incomplete"
           /\ Hurry(fatal \/ Left(0) <= Floor)
    /\ UNCHANGED <<now, deep, seat, seatEnd, main, recheck, recheckEnd, exit>>

-----------------------------------------------------------------------------
(* The deep parent turn.                                                   *)

Listening == deep /\ turn \in {"prompting", "waiting"} /\ ~heard.ended

\* The session yields, which the engine accepts or not; the last one counts.
\* It stops for a queued delivery, or for good.
Hears ==
    /\ Listening
    /\ \/ \E y \in {"good", "bad"} : heard' = [heard EXCEPT !.yield = y]
       \/ turn = "prompting" /\ heard' = [heard EXCEPT !.parked = TRUE]
       \/ heard' = [heard EXCEPT !.ended = TRUE]
    /\ UNCHANGED <<now, deep, proc, seat, seatEnd, turn, turnEnd, side, out, exit>>

\* The prompt returns or throws; a parked turn is waited for.
PromptSettles ==
    /\ turn = "prompting"
    /\ IF heard.parked /\ heard.yield = "none" /\ ~heard.ended
       THEN turn' = "waiting" /\ turnEnd' = now + Left(Tail)
       ELSE turn' = "settled" /\ UNCHANGED turnEnd
    /\ UNCHANGED <<now, deep, proc, seat, seatEnd, heard, side, out, exit>>

\* Only a terminal end releases it.
WaitEnds ==
    /\ turn = "waiting"
    /\ heard.ended \/ now = turnEnd
    /\ turn' = "settled"
    /\ UNCHANGED <<now, deep, proc, seat, seatEnd, heard, turnEnd, side, out, exit>>

\* A yield is the review; without one, a turn that has ended is stopped, and
\* one that has not is a failure.  The engine may refuse the envelope of a stop.
JudgeTurn ==
    /\ proc = "reviewing" /\ turn = "settled"
    /\ \E refused \in BOOLEAN :
       LET fatal == \/ heard.yield = "bad"
                    \/ heard.yield = "none" /\ (~heard.ended \/ refused)
       IN  /\ proc' = IF fatal THEN "failing" ELSE "rechecking"
           /\ out' = IF fatal THEN "none"
                     ELSE IF heard.yield = "good" THEN "clean" ELSE "incomplete"
           /\ Hurry(fatal \/ Left(0) <= Floor)
    /\ UNCHANGED <<now, deep, seat, seatEnd, main, recheck, recheckEnd, exit>>

-----------------------------------------------------------------------------
(* Recheck, report, files.                                                 *)

\* runRecheckSeat: a document, or a failure of its own; one that is stopped
\* from outside and throws has not failed.
RecheckEnds ==
    /\ recheck = "running"
    /\ recheck' \in {"document", "failed"} \cup (IF told THEN {"skipped"} ELSE {})
    /\ UNCHANGED <<now, deep, proc, seat, seatEnd, main, recheckEnd, told, out, exit>>

\* A review that has failed waits for the recheck, too.  The envelope of a wave
\* is validated after that, and the engine may refuse it.
Fail ==
    /\ proc = "failing" \/ (proc = "rechecking" /\ ~deep)
    /\ recheck # "running"
    /\ proc' = "ended" /\ exit' = "1" /\ out' = "none"
    /\ UNCHANGED <<now, deep, seat, seatEnd, main, side>>

\* runReportSeat has a timer of its own; without a budget it does not start.
StartReport ==
    /\ proc = "rechecking" /\ recheck # "running"
    /\ \/ Left(Margin) > 0 /\ proc' = "reporting"
       \/ proc' = "writing"
    /\ UNCHANGED <<now, deep, seat, seatEnd, main, side, out, exit>>

ReportEnds ==
    /\ proc = "reporting"
    /\ proc' = "writing"
    /\ UNCHANGED <<now, deep, seat, seatEnd, main, side, out, exit>>

\* The documents are written, then the envelope; a recheck's document that can
\* not be written is fatal.
Write ==
    /\ proc = "writing"
    /\ proc' = "ended"
    /\ \/ exit' = "0" /\ UNCHANGED out
       \/ recheck = "document" /\ exit' = "1" /\ out' = "none"
    /\ UNCHANGED <<now, deep, seat, seatEnd, main, side>>

-----------------------------------------------------------------------------

\* Caps and timers are kept, and the process itself does not dawdle.
MayPass ==
    /\ proc \in {"starting", "reviewing", "failing", "rechecking", "reporting"}
    /\ \A s \in Seat : seat[s] = "running" => now < seatEnd
    /\ turn = "waiting" => now < turnEnd /\ ~heard.ended
    /\ recheck = "running" => now < recheckEnd /\ ~told
    /\ proc = "reviewing" => IF deep THEN turn # "settled" ELSE ~WaveSettled
    /\ proc \in {"failing", "rechecking"} => recheck = "running"
    /\ proc = "reporting" => Left(Margin) > 0

Tick ==
    /\ now < Guard /\ MayPass
    /\ now' = now + 1
    /\ UNCHANGED <<deep, proc, seat, seatEnd, main, side, out, exit>>

\* timeout(1) kills the process, and what it has not printed is lost.
Kill ==
    /\ now = Guard /\ exit = "none"
    /\ exit' = "124" /\ out' = "none"
    /\ UNCHANGED <<now, deep, proc, seat, seatEnd, main, side>>

Next ==
    \/ /\ now < Guard
       /\ \/ StartFails \/ Dispatch \/ Judge \/ JudgeTurn
          \/ \E s \in Seat : SeatEnds(s)
          \/ Hears \/ PromptSettles \/ WaitEnds
          \/ RecheckEnds \/ Fail \/ StartReport \/ ReportEnds \/ Write
    \/ Tick \/ Kill

Spec == Init /\ [][Next]_vars

-----------------------------------------------------------------------------
(* Properties.                                                             *)

\* "A clean verdict over a wave that reviewed nothing is the dishonest
\* outcome": an envelope that does not say incomplete comes from a wave in which
\* every seat delivered, and "an operational failure is never laundered into a
\* partial review": one that does has a seat that was stopped or lost with
\* nothing usable, or a parent session that has come to its end.
EnvelopeIsHonest ==
    /\ out = "clean" => IF deep THEN heard.yield = "good"
                                ELSE \A s \in Seat : seat[s] \in Clean
    /\ out = "incomplete" =>
         IF deep THEN heard.yield = "none" /\ heard.ended
         ELSE \/ \A s \in Seat : seat[s] \in Clean \cup Capped
              \/ \A s \in Seat : seat[s] \notin Usable

\* Every cap leaves room for what comes after it: the guard kills a process
\* that is still starting, or whose parent turn has not returned, and never one
\* that has a review to print.
GuardKillsNoReview ==
    exit = "124" => proc = "starting" \/ (proc = "reviewing" /\ turn = "prompting")

\* "One failing seat must never cut teardown short for a sibling that is still
\* running": when the sessions are disposed nothing runs in them.
TeardownIsLast ==
    proc \in {"writing", "ended"} =>
        recheck # "running" /\ \A s \in Seat : seat[s] # "running"
=============================================================================
