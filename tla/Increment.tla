----------------------------- MODULE Increment -----------------------------
(***************************************************************************)
(* What the rounds of one pull request have looked at.  A first round      *)
(* reviews the whole diff, a later one only what was added since the last  *)
(* commit with a whole review (processMessage and findIncrementBase in     *)
(* src/pipeline/consumer.ts), while people push, rewrite the branch or     *)
(* move it back, and the cron finishes what a dead consumer has left.      *)
(*                                                                         *)
(* There is one round at a time (see Admission).  A commit is a node of    *)
(* the history of the branch, and a diff is the set of the commits whose   *)
(* changes it shows.  The full diff is that of the head when it is read    *)
(* (gh pr diff), the increment that of two fixed commits.                  *)
(***************************************************************************)
EXTENDS Naturals, Sequences

CONSTANTS
    Sha,        \* commits the branch has or is going to have
    NoSha,
    History,    \* [Sha -> SUBSET Sha]: a commit and all it is built on
    Empty,      \* SUBSET Sha: commits that change nothing
    MaxFaults

Sane ==
    /\ NoSha \notin Sha
    /\ History \in [Sha -> SUBSET Sha]
    /\ \A c \in Sha : c \in History[c]
    /\ \A c \in Sha : \A b \in History[c] : History[b] \subseteq History[c]
    /\ Empty \subseteq Sha
    /\ MaxFaults \in Nat

VARIABLES
    head,       \* the head of the pull request
    round,      \* the consumer's round
    pub,        \* the publication journal: phase and payload
    rows,       \* commits with a row in reviews, in order of insertion
    staged,     \* commits with a publication, in the order of created_ms
    inherited,  \* commits acked because nothing was added since the base
    faults      \* deaths, lost answers, captures that fail, reviews cut short

vars == <<head, round, pub, rows, staged, inherited, faults>>

-----------------------------------------------------------------------------

Steps == {"none", "context", "base", "diff", "increment", "stage", "send", "apply"}

Round == [at    : Steps,
          sha   : Sha \cup {NoSha},     \* the commit that was checked out
          todo  : SUBSET Sha,           \* confirmed publications it has read
          since : Sha \cup {NoSha},     \* the base of its increment
          diff  : Sha \cup {NoSha},     \* the head whose full diff it has
          stale : BOOLEAN]              \* staleContext

NoRound == [at |-> "none", sha |-> NoSha, todo |-> {}, since |-> NoSha,
            diff |-> NoSha, stale |-> FALSE]

\* A send whose answer is lost stays "prepared" here: it has no proof.
Open == {"prepared", "confirmed"}

Payload == [phase    : {"none", "applied", "failed"} \cup Open,
            since    : Sha \cup {NoSha},
            diff     : Sha \cup {NoSha},
            complete : BOOLEAN,         \* verdict <> 'incomplete'
            stale    : BOOLEAN]         \* context_incomplete

NoPayload == [phase |-> "none", since |-> NoSha, diff |-> NoSha,
              complete |-> FALSE, stale |-> FALSE]

TypeOK ==
    /\ head \in Sha \cup {NoSha}
    /\ round \in Round
    /\ pub \in [Sha -> Payload]
    /\ rows \in Seq(Sha) /\ staged \in Seq(Sha)
    /\ inherited \subseteq Sha
    /\ faults \in 0..MaxFaults
    /\ round.at # "none" => round.sha # NoSha

Init ==
    /\ head = NoSha
    /\ round = NoRound
    /\ pub = [c \in Sha |-> NoPayload]
    /\ rows = <<>> /\ staged = <<>>
    /\ inherited = {}
    /\ faults = 0

-----------------------------------------------------------------------------

Fault == faults < MaxFaults /\ faults' = faults + 1

MayFail(failed) == IF failed THEN Fault ELSE UNCHANGED faults

\* People push a commit on the head, or force the branch to another one.
Push(c) ==
    /\ head' = c
    /\ UNCHANGED <<round, pub, rows, inherited, staged, faults>>

-----------------------------------------------------------------------------
(* The tables.                                                             *)

Stored == {rows[i] : i \in 1..Len(rows)}

\* store.put: the first row of a commit stays.
Put(c) == rows' = IF c \in Stored THEN rows ELSE Append(rows, c)

Phase(c, phase) == pub' = [pub EXCEPT ![c].phase = phase]

\* applyPublishedLifecycle puts the review, then marks the publication; a fault
\* may leave it at either.
Apply(c) ==
    \/ Put(c) /\ Phase(c, "applied") /\ UNCHANGED faults
    \/ Put(c) /\ UNCHANGED pub /\ Fault

\* A bug: a round whose capture failed is a base as well.
CompleteIsBase(c) == pub[c].complete

\* The rows that findIncrementBase looks at: neither 'incomplete' nor stale.
IsBase(c) == pub[c].complete /\ ~pub[c].stale

\* Their newest, if the commit is ahead of it.
Ahead ==
    {c \in History[round.sha] \ {round.sha} :
        \E i \in 1..Len(rows) :
            /\ rows[i] = c /\ IsBase(c)
            /\ \A j \in i + 1..Len(rows) : ~IsBase(rows[j])}

-----------------------------------------------------------------------------
(* The round.                                                              *)

\* Clone, and dedup of the commit that was checked out.  Everything is keyed by
\* it from here on.  The pending publications are read.
Checkout ==
    /\ round.at = "none"
    /\ head # NoSha
    /\ head \notin Stored
    /\ pub[head].phase \notin Open
    /\ round' = [NoRound EXCEPT !.at = "context", !.sha = head,
                                !.todo = {c \in Sha : pub[c].phase = "confirmed"}]
    /\ UNCHANGED <<head, pub, rows, inherited, staged, faults>>

Oldest(c) ==
    /\ c \in round.todo
    /\ \E j \in 1..Len(staged) :
          staged[j] = c /\ \A i \in 1..j - 1 : staged[i] \notin round.todo

\* applyPendingLifecycleJournals: one publication after the other.  One that
\* the cron has applied meanwhile can not be claimed.
ApplyPending(c) ==
    /\ round.at = "context"
    /\ Oldest(c) /\ pub[c].phase = "confirmed"
    /\ round' = [round EXCEPT !.todo = @ \ {c}]
    /\ Put(c) /\ Phase(c, "applied")
    /\ UNCHANGED <<head, inherited, staged, faults>>

PendingFails(c) ==
    /\ round.at = "context"
    /\ Oldest(c)
    /\ \/ pub[c].phase # "confirmed" /\ UNCHANGED <<rows, faults>>
       \/ pub[c].phase = "confirmed" /\ Fault /\ (Put(c) \/ UNCHANGED rows)
    /\ round' = [round EXCEPT !.todo = {}, !.stale = TRUE, !.at = "base"]
    /\ UNCHANGED <<head, pub, inherited, staged>>

PendingDone ==
    /\ round.at = "context" /\ round.todo = {}
    /\ round' = [round EXCEPT !.at = "base"]
    /\ UNCHANGED <<head, pub, rows, inherited, staged, faults>>

\* The newest base, if GitHub finds the commit ahead of it; else, or when the
\* read or the comparison fails, there is none.
FindBase ==
    /\ round.at = "base"
    /\ \E failed \in BOOLEAN :
          /\ MayFail(failed)
          /\ round' = [round EXCEPT !.at = "diff",
                         !.since = IF failed \/ Ahead = {} THEN NoSha
                                   ELSE CHOOSE c \in Ahead : TRUE]
    /\ UNCHANGED <<head, pub, rows, inherited, staged>>

\* Every round reads the full diff, which shows the head of now.  It may be too
\* large, or unreadable.
FullDiff ==
    /\ round.at = "diff"
    /\ \E failed \in BOOLEAN :
          /\ MayFail(failed)
          /\ round' = [round EXCEPT !.diff = head, !.stale = @ \/ failed,
                         !.at = IF round.since = NoSha THEN "stage" ELSE "increment"]
    /\ UNCHANGED <<head, pub, rows, inherited, staged>>

Added == History[round.sha] \ History[round.since]

\* The increment takes the place of the full diff for the review.
Capture ==
    /\ round.at = "increment"
    /\ \E failed \in BOOLEAN :
          /\ failed \/ ~(Added \subseteq Empty)
          /\ MayFail(failed)
          /\ round' = [round EXCEPT !.stale = @ \/ failed, !.at = "stage"]
    /\ UNCHANGED <<head, pub, rows, inherited, staged>>

\* Nothing was added: ack, without a row.
Skip ==
    /\ round.at = "increment"
    /\ Added \subseteq Empty
    /\ inherited' = inherited \cup {round.sha}
    /\ round' = NoRound
    /\ UNCHANGED <<head, pub, rows, staged, faults>>

\* The verdict, and the payload with the flags of its row.  Seats may stop
\* early, discussions may be unavailable.  A payload that is there stays.
Stage ==
    /\ round.at = "stage"
    /\ \/ /\ pub[round.sha].phase # "none"
          /\ round' = NoRound
          /\ UNCHANGED <<pub, staged, faults>>
       \/ /\ pub[round.sha].phase = "none"
          /\ \E stopped, failed \in BOOLEAN :
                /\ MayFail(stopped \/ failed)
                /\ pub' = [pub EXCEPT ![round.sha] =
                             [phase |-> "prepared", since |-> round.since,
                              diff |-> round.diff, complete |-> ~stopped,
                              stale |-> round.stale \/ failed]]
          /\ staged' = Append(staged, round.sha)
          /\ round' = [round EXCEPT !.at = "send"]
    /\ UNCHANGED <<head, rows, inherited>>

\* With a proof the round goes on.  A rejected body has failed; without an
\* answer the publication stays as it is.
Send ==
    /\ round.at = "send"
    /\ \/ /\ Phase(round.sha, "confirmed")
          /\ round' = [round EXCEPT !.at = "apply"]
          /\ UNCHANGED faults
       \/ /\ Phase(round.sha, "failed") \/ UNCHANGED pub
          /\ round' = NoRound
          /\ Fault
    /\ UNCHANGED <<head, rows, inherited, staged>>

Finish ==
    /\ round.at = "apply"
    /\ Apply(round.sha)
    /\ round' = NoRound
    /\ UNCHANGED <<head, inherited, staged>>

\* The isolate dies, or a command in the sandbox fails and the message is
\* delivered again.
Die ==
    /\ round.at # "none"
    /\ round' = NoRound
    /\ Fault
    /\ UNCHANGED <<head, pub, rows, inherited, staged>>

-----------------------------------------------------------------------------
(* The cron, on what no consumer holds.                                    *)

Free(c) == round.sha = c => round.at \notin {"send", "apply"}

\* A send without a proof is found on GitHub or sent again by the cron, or it is
\* given up.
Discover(c) ==
    /\ pub[c].phase = "prepared" /\ Free(c)
    /\ Phase(c, "confirmed") \/ Phase(c, "failed")
    /\ UNCHANGED <<head, round, rows, inherited, staged, faults>>

Recover(c) ==
    /\ pub[c].phase = "confirmed" /\ Free(c)
    /\ Apply(c)
    /\ UNCHANGED <<head, round, inherited, staged>>

-----------------------------------------------------------------------------

Next ==
    \/ \E c \in Sha : Push(c) \/ ApplyPending(c) \/ PendingFails(c)
                      \/ Discover(c) \/ Recover(c)
    \/ Checkout \/ PendingDone \/ FindBase \/ FullDiff \/ Capture \/ Skip
    \/ Stage \/ Send \/ Finish \/ Die

Spec == Init /\ [][Next]_vars

-----------------------------------------------------------------------------
(* What the rows say, and what was looked at.                              *)

\* Commits with a whole review.
Whole == {c \in Stored : pub[c].complete /\ ~pub[c].stale}

\* What the diff showed that the review of c was made from.
Shown(c) == IF pub[c].since = NoSha THEN History[pub[c].diff]
            ELSE History[c] \ History[pub[c].since]

Seen == UNION {Shown(w) : w \in Whole}

\* What a first review of c has not seen, as the branch was rewritten between
\* its clone and its diff.
Rewritten == UNION {History[c] \ Shown(c) : c \in {w \in Whole : pub[w].since = NoSha}}

\* findIncrementBase: "Diffing against either would silently inherit that gap".
\* When a commit has a whole review, or was acked because nothing was added
\* since one, every change in it was in the diff of a whole review, of this
\* commit or of one it is built on, unless a rewrite took it from a full diff.
Covered ==
    \A c \in Whole \cup inherited :
        History[c] \ Empty \subseteq Seen \cup Rewritten
=============================================================================
