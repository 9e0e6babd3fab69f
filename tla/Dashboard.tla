------------------------------ MODULE Dashboard -----------------------------
(***************************************************************************)
(* The dashboard of gpclient: the terminal and the child behind it, and    *)
(* the text it shows. Each is a specification of its own over s.           *)
(***************************************************************************)
EXTENDS Integers, Sequences, SequencesExt, FiniteSetsExt

CONSTANTS
  None, MaxChunks, MaxStops,  \* bounds on output chunks and suspensions
  MaxLines, MaxBytes, MaxLineBytes, MaxIn,  \* the limits of output.rs, and of the input
  Base, Units  \* the step and the number of byte units

VARIABLE s

-----------------------------------------------------------------------------
(***************************************************************************)
(* The terminal dashboard of `gpclient connect --dashboard`                 *)
(* (apps/gpclient/src/dashboard: mod.rs, screen.rs, output.rs,              *)
(* restoration.rs): the connecting task, the renderer thread, the reader    *)
(* thread of the captured stderr, the panic hook, and the shell that stops  *)
(* and continues the process.                                               *)
(***************************************************************************)
\* err: where descriptor 2 leads. pipe: chunks not read. held: the chunk that the
\* reader forwards or stores. shown, stored: chunks on the terminal and in the
\* history. over: a chunk was written onto the alternate screen.
ScreenInit ==
  s = [main |-> "prepare", draw |-> "none", read |-> "none", raw |-> FALSE, alt |-> FALSE, err |-> "tty", cloexec |-> FALSE,
       pass |-> TRUE, armed |-> FALSE, active |-> FALSE, gate |-> None, stop |-> FALSE, drained |-> FALSE, cancel |-> FALSE,
       failure |-> None, fg |-> TRUE, pipe |-> 0, held |-> FALSE, chunks |-> 0, shown |-> 0, stored |-> 0, lost |-> 0,
       over |-> FALSE, panic |-> FALSE, stops |-> 0, ready |-> None, result |-> None]

\* Not stopped by SIGSTOP.
Running == s.draw /= "stopped"

\* OutputRouting::install and capture.
Prepare ==
  /\ s.main = "prepare"
  /\ \/ s' = [s EXCEPT !.main = "connect", !.err = "pipe", !.cloexec = TRUE, !.read = "poll"]
     \/ s' = [s EXCEPT !.main = "done", !.result = "error"]

\* Dashboard::start, once the tunnel is established; without it the attempt ends.
StartDashboard ==
  /\ s.main = "connect"
  /\ \/ s' = [s EXCEPT !.main = "starting", !.draw = "enter"]
     \/ s' = [s EXCEPT !.main = "finish"]

\* The result of `started.recv()`: an error ends the attempt.
Started ==
  /\ s.main = "starting" /\ Running
  /\ \/ s.ready = "ok" /\ s' = [s EXCEPT !.main = "up"]
     \/ s.ready = "err" /\ s' = [s EXCEPT !.main = "finish", !.cancel = TRUE]

\* The tunnel ends on a cancellation or by itself.
TunnelEnds == s.main = "up" /\ Running /\ s' = [s EXCEPT !.main = "finish"]

-----------------------------------------------------------------------------
\* Screen::enter holds the gate while the terminal changes hands; it arms the
\* restoration first, and any of its calls may fail half way.
Enter ==
  /\ s.draw = "enter" /\ s.gate = None
  /\ IF ~s.fg THEN s' = [s EXCEPT !.draw = "leave", !.failure = "enter"]
     ELSE s' = [s EXCEPT !.gate = "draw", !.pass = FALSE, !.armed = TRUE, !.active = TRUE, !.draw = "raw"]
EnableRaw ==
  /\ s.draw = "raw"
  /\ \/ s' = [s EXCEPT !.raw = TRUE, !.draw = "alt"]
     \/ s' = [s EXCEPT !.draw = "leave", !.gate = None, !.failure = "enter"]
EnterAlternate ==
  /\ s.draw = "alt"
  /\ \/ s' = [s EXCEPT !.alt = TRUE, !.draw = "loop", !.gate = None, !.ready = "ok"]
     \/ \E alt \in BOOLEAN : s' = [s EXCEPT !.alt = alt, !.draw = "leave", !.gate = None, !.failure = "enter"]

\* Screen::leave, also from Drop.
Left(t) == IF t.active THEN [t EXCEPT !.raw = FALSE, !.alt = FALSE, !.armed = FALSE, !.pass = TRUE, !.active = FALSE] ELSE t
Leave ==
  /\ s.draw = "leave" /\ s.gate = None
  /\ s' = [Left(s) EXCEPT !.draw = "ended", !.cancel = @ \/ s.failure /= None, !.ready = IF @ = None THEN "err" ELSE @]

\* run: stop, suspension, return to the foreground, Ctrl-C, and a failing draw.
RenderLoop ==
  /\ s.draw = "loop"
  /\ \/ s.stop /\ s' = [s EXCEPT !.draw = "leave"]
     \/ ~s.stop /\ ~s.active /\ s.fg /\ s' = [s EXCEPT !.draw = "enter"]
     \/ ~s.stop /\ s.active /\ s' = [s EXCEPT !.cancel = TRUE]
     \/ ~s.stop /\ s.active /\ s.failure = None /\ s' = [s EXCEPT !.draw = "leave", !.failure = "draw"]
Suspend ==
  /\ s.draw = "loop" /\ ~s.stop /\ s.stops < MaxStops /\ s.gate = None
  /\ s' = [Left(s) EXCEPT !.draw = "stopped", !.fg = FALSE, !.stops = @ + 1]

\* The shell continues the process, in the foreground or in the background.
Continue == s.draw = "stopped" /\ \E fg \in BOOLEAN : s' = [s EXCEPT !.draw = "loop", !.fg = fg]
Foreground == s.draw /= "stopped" /\ ~s.fg /\ s' = [s EXCEPT !.fg = TRUE]
\* TerminalRestoration::restore, from the hook of a panic in any thread; the
\* renderer's own panic unwinds through Screen's Drop.
Panic ==
  /\ s.main = "up" /\ ~s.panic /\ Running
  /\ LET t == IF s.armed THEN [s EXCEPT !.armed = FALSE, !.raw = FALSE, !.alt = FALSE, !.err = "tty", !.cloexec = FALSE] ELSE s
     IN \/ s' = [t EXCEPT !.panic = TRUE]
        \/ s.draw = "loop" /\ s' = [t EXCEPT !.panic = TRUE, !.draw = "leave", !.failure = "panic"]

-----------------------------------------------------------------------------
\* Anything that writes to descriptor 2.
Output ==
  /\ s.chunks < MaxChunks /\ Running /\ s.main \notin {"prepare", "done"}
  /\ s' = IF s.err = "pipe" THEN [s EXCEPT !.chunks = @ + 1, !.pipe = @ + 1]
          ELSE [s EXCEPT !.chunks = @ + 1, !.shown = @ + 1, !.over = @ \/ s.alt]

\* The reader forwards a chunk under the gate, then stores it. Its last rounds
\* are bounded in time once it is told to stop.
ReadChunk == s.read = "poll" /\ s.pipe > 0 /\ Running /\ s' = [s EXCEPT !.read = "forward", !.pipe = @ - 1, !.held = TRUE]
Forward ==
  /\ s.read = "forward" /\ s.gate = None /\ Running
  /\ \/ s' = [s EXCEPT !.read = "store", !.shown = @ + (IF s.pass THEN 1 ELSE 0), !.over = @ \/ (s.pass /\ s.alt)]
     \/ s.pass /\ s' = [s EXCEPT !.read = "store", !.cancel = TRUE, !.failure = IF @ = None THEN "write" ELSE @]
Store == s.read = "store" /\ Running /\ s' = [s EXCEPT !.read = "poll", !.stored = @ + 1, !.held = FALSE]
ReaderEnds ==
  /\ s.read = "poll" /\ s.drained /\ Running
  /\ s' = [s EXCEPT !.read = "ended", !.lost = s.pipe, !.pipe = 0]

-----------------------------------------------------------------------------
\* Mutant: the routing is restored without waiting for the renderer.
FinishUnjoined == s.main = "finish" /\ Running /\ s' = [s EXCEPT !.main = "restore", !.stop = TRUE]

\* Dashboard::finish: stop and join the renderer, then OutputRouting::restore.
Finish ==
  /\ s.main = "finish" /\ Running
  /\ \/ ~s.stop /\ s' = [s EXCEPT !.stop = TRUE]
     \/ s.stop /\ s.draw \in {"none", "ended"} /\ s' = [s EXCEPT !.main = "restore"]
RestoreOutput ==
  /\ s.main = "restore" /\ Running
  /\ \/ ~s.drained /\ s' = [s EXCEPT !.err = "tty", !.cloexec = FALSE, !.drained = TRUE]
     \/ s.drained /\ s.read = "ended" /\ s' = [s EXCEPT !.main = "done", !.result = IF s.failure = None THEN "ok" ELSE "error"]

ScreenStutter == s.main = "done" /\ UNCHANGED s

ScreenNext ==
  Prepare \/ StartDashboard \/ Started \/ TunnelEnds \/ Enter \/ EnableRaw \/ EnterAlternate \/ Leave \/ RenderLoop \/ Suspend
  \/ Continue \/ Foreground \/ Panic \/ Output \/ ReadChunk \/ Forward \/ Store \/ ReaderEnds \/ Finish \/ RestoreOutput \/ ScreenStutter

-----------------------------------------------------------------------------
\* The terminal is given back: when the dashboard is done nothing of it is left
\* on the terminal or the descriptors, whatever failed or panicked; while the
\* process is stopped the shell has a plain terminal; captured output never
\* lands on the alternate screen and is never dropped before the drain's bound;
\* and a renderer that failed has asked for the disconnect.
TerminalGivenBack ==
  /\ s.main = "done" => ~s.raw /\ ~s.alt /\ s.err = "tty" /\ ~s.cloexec /\ s.pass /\ s.gate = None
  /\ s.draw = "stopped" => ~s.raw /\ ~s.alt
  /\ ~s.panic => ~s.over
  /\ s.raw \/ s.alt => s.armed \/ s.panic
  /\ ~s.panic /\ s.err = "pipe" => s.chunks = s.pipe + (IF s.held THEN 1 ELSE 0) + s.stored
  /\ s.draw = "ended" /\ s.failure /= None => s.cancel

-----------------------------------------------------------------------------
(***************************************************************************)
(* What the dashboard shows (apps/gpclient/src/dashboard: output.rs,        *)
(* layout.rs, screen.rs): the bounded history of captured lines, the        *)
(* scrolled details, the placement of the sections and the units of a       *)
(* byte count.                                                              *)
(***************************************************************************)
Streams == {0, 1}
Widths == {24, 87, 88, 89, 119, 120}
Keys == {"Up", "Down", "PageUp", "PageDown", "Home", "End"}

\* Every section has its heading, and the tunnel section at least one row more.
\* A line is its number of bytes and whether it was cut; id orders the lines.
Empty == [n |-> 0, cut |-> FALSE]
TextInit ==
  \/ s = [kind |-> "history", lines |-> <<>>, discarded |-> 0, partial |-> [i \in Streams |-> Empty], all |-> 0, fed |-> 0]
  \/ s = [kind |-> "scroll", offset |-> 0, maximum |-> 0, page |-> 0, content |-> 0, view |-> 0]
  \/ \E w \in Widths, t, d, r \in 1..3, n \in 2..4 : s = [kind |-> "layout", width |-> w, heights |-> <<t, n, d, r>>, out |-> <<>>]
  \/ \E v \in 0..(Base * Base * Base * 2) : s = [kind |-> "bytes", value |-> v, unit |-> -1]

Bytes(line) == line.n + (IF line.cut THEN 1 ELSE 0)
Total(lines) == SumFunction([i \in DOMAIN lines |-> Bytes(lines[i])])

\* Mutant: the oldest line is kept when there are too many.
PushNewest(lines, line) ==
  LET all == Append(lines, line)
      keep == Max({k \in 0..Len(all) : k <= MaxLines /\ Total(SubSeq(all, 1, k)) <= MaxBytes})
  IN SubSeq(all, 1, keep)

\* History::push drops lines from the front until both limits hold.
Push(lines, line) ==
  LET all == Append(lines, line)
      drop == Min({k \in 0..Len(all) : Len(all) - k <= MaxLines /\ Total(SubSeq(all, k + 1, Len(all))) <= MaxBytes})
  IN SubSeq(all, drop + 1, Len(all))

Pushed(t, line) ==
  LET lines == Push(t.lines, [line EXCEPT !.id = t.all + 1]) IN
  [t EXCEPT !.lines = lines, !.all = @ + 1, !.discarded = t.discarded + Len(t.lines) + 1 - Len(lines)]
Line(p) == [id |-> 0, n |-> p.n, cut |-> p.cut]

\* LineDecoder::ingest of one byte, and finish.
Ingest(i) ==
  /\ s.kind = "history" /\ s.fed < MaxIn
  /\ LET p == s.partial[i] IN
     \/ s' = [Pushed(s, Line(p)) EXCEPT !.partial[i] = Empty, !.fed = @ + 1]
     \/ s' = [s EXCEPT !.fed = @ + 1, !.partial[i] = IF p.n < MaxLineBytes THEN [p EXCEPT !.n = @ + 1] ELSE [p EXCEPT !.cut = TRUE]]
FinishLines(i) ==
  /\ s.kind = "history" /\ s.partial[i] /= Empty
  /\ s' = [Pushed(s, Line(s.partial[i])) EXCEPT !.partial[i] = Empty, !.fed = MaxIn]

\* History::tail: the marker (0) of discarded lines, the newest lines that fit, and
\* the unfinished ones (negative).
Tail_(count) ==
  LET marker == IF s.discarded > 0 THEN <<0>> ELSE <<>>
      open == SelectSeq(<<0, 1>>, LAMBDA i : s.partial[i] /= Empty)
      room == Max({0, count - Len(marker) - Len(open)})
      skip == Max({0, Len(s.lines) - room})
      all == marker \o [k \in 1..(Len(s.lines) - skip) |-> s.lines[skip + k].id] \o [k \in 1..Len(open) |-> -1 - open[k]]
  IN SubSeq(all, 1, Min({count, Len(all)}))

-----------------------------------------------------------------------------
\* DetailScroll: handle_key, and update when the screen is drawn.
HandleKey ==
  /\ s.kind = "scroll"
  /\ \E key \in Keys :
       LET to == CASE key = "Up" -> Max({0, s.offset - 1}) [] key = "Down" -> s.offset + 1
                   [] key = "PageUp" -> Max({0, s.offset - s.page}) [] key = "PageDown" -> s.offset + s.page
                   [] key = "Home" -> 0 [] key = "End" -> s.maximum
       IN s' = [s EXCEPT !.offset = Min({to, s.maximum})]
Update ==
  /\ s.kind = "scroll"
  /\ \E content, view \in 0..5 :
       LET most == IF view = 0 THEN 0 ELSE Max({0, content - view})
       IN s' = [s EXCEPT !.maximum = most, !.offset = Min({@, most}), !.page = Max({1, view - 1}), !.content = content, !.view = view]

\* details: traffic, then tunnel and DNS side by side or below each other, then
\* the routes.
Details ==
  /\ s.kind = "layout" /\ s.out = <<>>
  /\ LET w == s.width   t == s.heights[1]   n == s.heights[2]   d == s.heights[3]   r == s.heights[4]
         columns == w >= 88
         cw == IF columns THEN (w - 4) \div 2 ELSE w
         ny == t + 1
         network == IF columns THEN Max({n, d}) ELSE n + 1 + d
         ry == ny + network + 1
     IN s' = [s EXCEPT !.out = <<[x |-> 0, y |-> 0, w |-> w, h |-> t], [x |-> 0, y |-> ny, w |-> cw, h |-> n],
                                 [x |-> IF columns THEN cw + 4 ELSE 0, y |-> IF columns THEN ny ELSE ny + n + 1, w |-> cw, h |-> d],
                                 [x |-> 0, y |-> ry, w |-> w, h |-> r], [x |-> 0, y |-> 0, w |-> w, h |-> ry + r]>>]

\* bytes: divide until it is below the step or the units end.
UnitOf[v \in Nat, u \in Nat] == IF v >= Base /\ u < Units - 1 THEN UnitOf[v \div Base, u + 1] ELSE u
FormatBytes == s.kind = "bytes" /\ s.unit = -1 /\ s' = [s EXCEPT !.unit = UnitOf[s.value, 0]]

TextStutter == UNCHANGED s
TextNext == HandleKey \/ Update \/ Details \/ FormatBytes \/ (\E i \in Streams : Ingest(i) \/ FinishLines(i)) \/ TextStutter

-----------------------------------------------------------------------------
\* The history is the newest lines, none missing between them, within both
\* limits, and it counts what it dropped; a tail with room for the marker and
\* the unfinished lines ends with the newest line and those. Scrolling stays on
\* the content. Sections do not overlap and stay inside the buffer. A byte count
\* is shown in the largest unit that does not exceed it.
Overlap(a, b) == a.x < b.x + b.w /\ b.x < a.x + a.w /\ a.y < b.y + b.h /\ b.y < a.y + a.h
Power[k \in 0..8] == IF k = 0 THEN 1 ELSE Base * Power[k - 1]
ShownExactly ==
  /\ s.kind = "history" =>
       /\ \A k \in DOMAIN s.lines : s.lines[k].id = s.all - Len(s.lines) + k
       /\ s.discarded = s.all - Len(s.lines) /\ Len(s.lines) <= MaxLines /\ Total(s.lines) <= MaxBytes
       /\ \A c \in 0..6 : Len(Tail_(c)) <= c
       /\ \A c \in 4..6 : s.lines /= <<>> => \E k \in 1..Len(Tail_(c)) : Tail_(c)[k] = s.all /\ Len(Tail_(c)) - k <= 2
  /\ s.kind = "scroll" => s.offset <= s.maximum /\ (s.view > 0 => s.offset + Min({s.view, s.content}) <= s.content)
  /\ s.kind = "layout" /\ s.out /= <<>> =>
       \A a \in 1..4 : /\ s.out[a].x + s.out[a].w <= s.width /\ s.out[a].y + s.out[a].h <= s.out[5].h
                       /\ \A b \in 1..4 \ {a} : ~Overlap(s.out[a], s.out[b])
  /\ s.kind = "bytes" /\ s.unit >= 0 =>
       s.unit = Max({0} \cup {u \in 0..(Units - 1) : s.value >= Power[u]})
=============================================================================
