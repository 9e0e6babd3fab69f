-------------------------- MODULE ControlledChild --------------------------
(***************************************************************************)
(* The runner of child processes (gpapi's command_runner.rs) and what its    *)
(* three callers make of the result: HIP collection, the authenticator       *)
(* (auth_launcher.rs) and a desktop GUI (desktop_child.rs). The parent polls *)
(* nonblocking pipes, the child runs beside it and may leave a helper that   *)
(* holds its pipes open.                                                     *)
(*                                                                          *)
(* Bytes are counted; the child reads its frame and writes what it has, in   *)
(* any order, and may exit at any time.                                      *)
(***************************************************************************)
EXTENDS Integers

CONSTANTS MaxOut, Limit, FrameLen, PipeCap, None

VARIABLE s

Init ==
  \E kind \in {"collect", "auth", "manual", "gui"}, out \in 0..MaxOut, err \in {0, 2}, forks \in BOOLEAN :
    /\ kind = "gui" => out = 0
    /\ kind = "collect" => err = 0
    /\ s = [kind |-> kind, out |-> out, err |-> err, forks |-> forks, eligible |-> None,
            child |-> "none", helper |-> "none", status |-> None, exit |-> None,
            inPipe |-> 0, outPipe |-> 0, errPipe |-> 0, wrote |-> 0, wroteErr |-> 0,
            pc |-> "spawn", offset |-> 0, inputError |-> FALSE, output |-> 0, seen |-> 0, outEof |-> kind = "gui",
            errEof |-> kind = "collect", late |-> FALSE, cancelled |-> FALSE, result |-> None, told |-> None]

Frame == IF s.kind = "gui" THEN FrameLen ELSE 0
OwnGroup == s.kind # "manual"
Writers == s.child = "runs" \/ s.helper = "runs"

-----------------------------------------------------------------------------
\* The child, and the helper it may leave behind.
ChildReads == s.inPipe > 0 /\ s' = [s EXCEPT !.inPipe = @ - 1]
ChildWrites == s.wrote < s.out /\ s.outPipe < PipeCap /\ s' = [s EXCEPT !.wrote = @ + 1, !.outPipe = @ + 1]
ChildReports == s.wroteErr < s.err /\ s.errPipe < PipeCap /\ s' = [s EXCEPT !.wroteErr = @ + 1, !.errPipe = @ + 1]
ChildForks == s.forks /\ s.helper = "none" /\ s' = [s EXCEPT !.helper = "runs"]
ChildExits(how) == s' = [s EXCEPT !.child = "exited", !.exit = how, !.inPipe = 0]
Finished == s.wrote = s.out /\ s.wroteErr = s.err
Child ==
  /\ s.child = "runs"
  /\ \/ ChildReads \/ ChildWrites \/ ChildReports \/ ChildForks
     \/ \E how \in {"success", "crash"} : Finished /\ ChildExits(how)
ChildAborts == s.child = "runs" /\ \E how \in {"failure", "crash"} : ChildExits(how)
HelperEnds == s.helper = "runs" /\ s' = [s EXCEPT !.helper = "gone"]

-----------------------------------------------------------------------------
\* stop_helpers: a group is killed whole; a child on the terminal has no group.
HelpersStopped(f) == [f EXCEPT !.helper = IF OwnGroup /\ @ = "runs" THEN "gone" ELSE @]
\* An early return drops the child: helpers are stopped and the child is reaped.
Dropped(error) == [HelpersStopped(s) EXCEPT !.child = "reaped", !.inPipe = 0, !.pc = "returned", !.result = error]

Spawn ==
  /\ s.pc = "spawn"
  /\ \/ s.cancelled /\ s' = [s EXCEPT !.pc = "returned", !.result = "interrupted"]
     \/ ~s.cancelled /\ s' = [s EXCEPT !.pc = "returned", !.result = "failed"]
     \/ ~s.cancelled /\ s' = [s EXCEPT !.pc = "check", !.child = "runs"]
Check ==
  /\ s.pc = "check"
  /\ s' = IF s.cancelled THEN Dropped("interrupted") ELSE [s EXCEPT !.pc = "input"]
WriteInput ==
  /\ s.pc = "input"
  /\ IF s.offset = Frame \/ s.inputError THEN s' = [s EXCEPT !.pc = "stdout"]
     ELSE \/ s.child # "runs" /\ s' = [s EXCEPT !.pc = "stdout", !.inputError = TRUE]
          \/ s.child = "runs" /\ s.inPipe = PipeCap /\ s' = [s EXCEPT !.pc = "stdout"]
          \/ /\ s.child = "runs"
             /\ \E n \in 1..(PipeCap - s.inPipe) :
                  n <= Frame - s.offset /\ s' = [s EXCEPT !.pc = "stdout", !.offset = @ + n, !.inPipe = @ + n]
ReadStdout ==
  /\ s.pc = "stdout"
  /\ s' = IF s.outEof \/ (s.outPipe = 0 /\ Writers) THEN [s EXCEPT !.pc = "stderr"]
          ELSE IF s.outPipe = 0 THEN [s EXCEPT !.pc = "stderr", !.outEof = TRUE]
          ELSE IF s.outPipe > Limit - s.output THEN Dropped("limit")
          ELSE [s EXCEPT !.pc = "stderr", !.output = @ + s.outPipe, !.outPipe = 0]
\* What is read of stderr is observed and copied, which may fail.
ReadStderr ==
  /\ s.pc = "stderr"
  /\ \/ s' = IF s.errEof \/ (s.errPipe = 0 /\ Writers) THEN [s EXCEPT !.pc = "wait"]
             ELSE IF s.errPipe = 0 THEN [s EXCEPT !.pc = "wait", !.errEof = TRUE]
             ELSE [s EXCEPT !.pc = "wait", !.seen = @ + s.errPipe, !.errPipe = 0]
     \/ ~s.errEof /\ s.errPipe > 0 /\ s' = Dropped("failed")
TryWait ==
  /\ s.pc = "wait"
  /\ s' = IF s.child = "exited" THEN [HelpersStopped(s) EXCEPT !.child = "reaped", !.status = s.exit, !.pc = "decide"]
          ELSE [s EXCEPT !.pc = "decide"]
\* Both pipes ended, or a quarter of a second has passed since the exit.
Decide ==
  /\ s.pc = "decide"
  /\ s' = IF s.status # None /\ ((s.outEof /\ s.errEof) \/ s.late)
          THEN [s EXCEPT !.pc = "returned", !.result = "ok", !.inputError = @ \/ s.offset < Frame]
          ELSE [s EXCEPT !.pc = "check"]
Elapses == s.status # None /\ ~s.late /\ s.result = None /\ s' = [s EXCEPT !.late = TRUE]
Cancel == ~s.cancelled /\ s.told = None /\ s' = [s EXCEPT !.cancelled = TRUE]

\* AuthLauncher::launch, launch_desktop_child and run_controlled's callers.
Diagnosed == s.err > 0 /\ s.seen = s.err
Tell ==
  /\ s.pc = "returned" /\ s.told = None
  /\ \E eligible \in BOOLEAN : s' = [s EXCEPT !.eligible = eligible, !.told =
       IF s.kind \in {"auth", "manual"} /\ (s.result = "interrupted" \/ (s.result = "ok" /\ s.cancelled)) THEN "cancelled"
       ELSE IF s.result # "ok" THEN "error"
       ELSE IF s.kind = "collect" THEN s.status
       ELSE IF s.status = "crash" /\ eligible /\ Diagnosed THEN "rendering"
       ELSE IF s.inputError \/ s.status # "success" THEN "error"
       ELSE IF s.kind = "gui" THEN "success"
       ELSE IF s.output > 0 /\ s.output = s.out THEN "credential" ELSE "error"]

Parent == Spawn \/ Check \/ WriteInput \/ ReadStdout \/ ReadStderr \/ TryWait \/ Decide \/ Tell
Stutter == s.told # None /\ UNCHANGED s
Next == Parent \/ Child \/ ChildAborts \/ HelperEnds \/ Elapses \/ Cancel \/ Stutter

-----------------------------------------------------------------------------
\* Whatever ends a run, the child is reaped and its group is gone; what it
\* wrote is returned whole within the limit unless the quarter of a second cut
\* it off; a GUI counts as started only with its whole credential; and a
\* rendering crash is reported only when its diagnostic was read.
ChildOwned ==
  /\ s.pc = "returned" => s.child \in {"none", "reaped"} /\ (OwnGroup => s.helper # "runs")
  /\ s.output <= Limit
  /\ s.result = "ok" /\ ~s.late => s.output = s.wrote /\ s.seen = s.wroteErr
  /\ s.result = "ok" /\ s.exit = "success" /\ ~s.late => s.output = s.out
  /\ s.told = "success" /\ s.kind = "gui" => s.offset = FrameLen /\ s.exit = "success"
  /\ s.told = "credential" => s.output = s.wrote /\ s.exit = "success"
  /\ s.told = "rendering" => s.eligible /\ s.exit = "crash" /\ s.seen = s.wroteErr
  /\ s.result = "limit" => s.wrote > Limit

Over == s.told # None
=============================================================================
