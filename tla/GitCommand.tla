------------------------------ MODULE GitCommand ------------------------------
(***************************************************************************)
(* One call of Git (internal/review/git.go): the drivers are listed by a    *)
(* first child, then the command runs in a second one.  Both write to two   *)
(* bounded sinks; a sink that overflows, a destination that refuses and a   *)
(* context that ends kill the process group, from whatever goroutine sees   *)
(* it.  The caller is told the first of: the destination failed, stdout     *)
(* overflowed, stderr overflowed, cancelled, the exit status.               *)
(*                                                                         *)
(* What the child writes is counted, not spelled; the arguments and the     *)
(* environment it is started with are fixed.                                *)
(***************************************************************************)
EXTENDS Naturals

CONSTANTS
    None,
    OutLimit, ErrLimit,          \* bytes a sink takes
    DestLimit,                   \* bytes the destination of Pipe takes before it fails
    MaxWrites                    \* bound: chunks a child writes

VARIABLES
    call,       \* the call: which helper, which child, what was answered
    child,      \* the process group
    out, err,   \* the two sinks
    context     \* [done: the context ended, seen: the watcher stored it]

vars == <<call, child, out, err, context>>

Calls == {"output", "pipe", "diff"}
Empty == [n |-> 0, over |-> FALSE, failed |-> FALSE, fire |-> FALSE]
NoChild == [state |-> "none", code |-> 0, wrote |-> 0, chunks |-> 0]

Init ==
    /\ call \in [of : Calls, pc : {"discover"}, listed : {FALSE}, answer : {None}]
    /\ child = NoChild /\ out = Empty /\ err = Empty
    /\ context = [done |-> FALSE, seen |-> FALSE]

Running == child.state = "running"
Kill(c) == IF c.state = "running" THEN [c EXCEPT !.state = "killed"] ELSE c
Answers(answer) == call' = [call EXCEPT !.pc = "done", !.answer = answer]

(* run: Start and, at once, the second look at the context.                 *)
Start ==
    /\ call.pc \in {"discover", "command"} /\ child.state = "none"
    /\ child' = [child EXCEPT !.state = "starting"]
    /\ UNCHANGED <<call, out, err, context>>
Started ==
    /\ child.state = "starting"
    /\ child' = IF context.done THEN [child EXCEPT !.state = "killed"]
                ELSE [child EXCEPT !.state = "running"]
    /\ UNCHANGED <<call, out, err, context>>
CannotStart ==
    /\ child.state = "starting"
    /\ Answers("launch") /\ child' = NoChild /\ UNCHANGED <<out, err, context>>

(* boundedBuffer.Write, boundedWriter.Write: what fits is kept, the rest is *)
(* dropped, and a kill is owed once the lock is released.                   *)
Fits(sink, limit, n) == IF sink.n + n > limit THEN limit - sink.n ELSE n
Buffered(sink, limit, n) ==
    IF sink.over THEN sink
    ELSE [sink EXCEPT !.n = @ + Fits(sink, limit, n),
                      !.over = sink.n + n > limit, !.fire = sink.n + n > limit]
Streamed(sink, limit, n) ==
    IF sink.over \/ sink.failed THEN sink
    ELSE LET part    == Fits(sink, limit, n)
             refused == sink.n + part > DestLimit IN
         [sink EXCEPT !.n = IF refused THEN DestLimit ELSE @ + part,
                      !.over = sink.n + n > limit, !.failed = refused,
                      !.fire = sink.n + n > limit \/ refused]
Streams == call.of = "pipe" /\ call.pc = "command"
WriteOut(n) ==
    /\ Running /\ child.chunks < MaxWrites
    /\ child' = [child EXCEPT !.wrote = @ + n, !.chunks = @ + 1]
    /\ out' = IF Streams THEN Streamed(out, OutLimit, n) ELSE Buffered(out, OutLimit, n)
    /\ UNCHANGED <<call, err, context>>
WriteErr(n) ==
    /\ Running /\ child.chunks < MaxWrites
    /\ child' = [child EXCEPT !.chunks = @ + 1]
    /\ err' = Buffered(err, ErrLimit, n)
    /\ UNCHANGED <<call, out, context>>
Fire ==
    /\ out.fire \/ err.fire
    /\ child' = Kill(child)
    /\ out' = [out EXCEPT !.fire = FALSE] /\ err' = [err EXCEPT !.fire = FALSE]
    /\ UNCHANGED <<call, context>>

Exit(code) == /\ Running /\ child' = [child EXCEPT !.state = "exited", !.code = code]
              /\ UNCHANGED <<call, out, err, context>>

(* The context ends; the watcher stores that it did, and kills.             *)
Cancel == /\ call.pc # "done" /\ ~context.done /\ context' = [context EXCEPT !.done = TRUE]
          /\ UNCHANGED <<call, child, out, err>>
Watch == /\ context.done /\ ~context.seen /\ child.state \in {"running", "exited", "killed"}
         /\ context' = [context EXCEPT !.seen = TRUE]
         /\ UNCHANGED <<call, child, out, err>>
WatcherKills == context.seen /\ Running /\ child' = Kill(child) /\ UNCHANGED <<call, out, err, context>>

(* run, after Wait: the copiers are through with the pipes.                 *)
Waited == child.state \in {"exited", "killed"} /\ ~out.fire /\ ~err.fire
Failure == CASE out.failed -> "destination"
             [] ~out.failed /\ out.over -> "overflow"
             [] ~out.failed /\ ~out.over /\ err.over -> "stderr"
             [] ~out.failed /\ ~out.over /\ ~err.over /\ context.seen -> "cancelled"
             [] OTHER -> None
Code == IF child.state = "killed" THEN "signal" ELSE IF child.code = 0 THEN "ok"
        ELSE IF child.code = 1 THEN "one" ELSE "bad"

(* enumerateDrivers: names, no names, or a refusal to go on.                *)
Discovered ==
    /\ Waited /\ call.pc = "discover"
    /\ IF Failure = None /\ (Code = "ok" \/ (Code = "one" /\ out.n = 0))
       THEN /\ call' = [call EXCEPT !.pc = "command", !.listed = out.n = child.wrote]
            /\ child' = NoChild /\ out' = Empty /\ err' = Empty
            /\ context' = [context EXCEPT !.seen = FALSE]
       ELSE Answers("discovery") /\ UNCHANGED <<child, out, err, context>>

Accepted == Code = "ok" \/ (call.of = "diff" /\ Code = "one")
Answer ==
    /\ Waited /\ call.pc = "command"
    /\ Answers(IF Failure # None THEN Failure ELSE IF Accepted THEN "whole" ELSE "status")
    /\ UNCHANGED <<child, out, err, context>>

Next ==
    \/ Start \/ Started \/ CannotStart
    \/ \E n \in 1..2 : WriteOut(n) \/ WriteErr(n)
    \/ Fire
    \/ \E code \in {0, 1, 128} : Exit(code)
    \/ Cancel \/ Watch \/ WatcherKills
    \/ Discovered \/ Answer

Spec == Init /\ [][Next]_vars

(***************************************************************************)
(* An answer is the command's own: output that is returned is all that the  *)
(* command wrote, within the limit, of a child that ended by itself with a  *)
(* status the helper accepts; no command runs behind an incomplete list of  *)
(* drivers; and what overflowed is told as an overflow, though the same     *)
(* step killed the child and the context ended as well.                     *)
(***************************************************************************)
AnswerIsWhole ==
    /\ call.pc = "command" => call.listed
    /\ call.answer = "whole" =>
           /\ child.state = "exited" /\ child.code \in (IF call.of = "diff" THEN {0, 1} ELSE {0})
           /\ out.n = child.wrote /\ out.n <= OutLimit /\ (call.of = "pipe" => out.n <= DestLimit)
    /\ call.pc = "done" /\ out.over /\ ~out.failed => call.answer \in {"overflow", "discovery"}
=============================================================================
