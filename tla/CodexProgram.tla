----------------------------- MODULE CodexProgram -----------------------------
(***************************************************************************)
(* The program Codex ships (native/src/codex_read.rs): which one is        *)
(* started, and what is made of the lines it prints.                       *)
(***************************************************************************)
EXTENDS Integers, Sequences, FiniteSets, SequencesExt

CONSTANT LineLimit       \* the longest line of an answer

-----------------------------------------------------------------------------
(* Finding the program *)

(* A directory may hold codex.exe, a plain codex, a script of that name     *)
(* (shim), and below it the programs of Codex's package, each for a kind of *)
(* machine.                                                                 *)
CommandIn(dir, windows) == dir.plain \/ (windows /\ (dir.exe \/ dir.shim))

FirstWith(dirs, holds(_)) == SelectInSeq(dirs, holds)

(* A machine that runs both kinds may hold only the other one. *)
Fitting(dir, machine) ==
  LET for(kind) == {f \in dir.package : f.kind = kind}
      other == IF machine = "arm" THEN "x86" ELSE "arm"
  IN IF for(machine) # {} THEN for(machine) ELSE for(other)

(* Slip: of several programs of a package any will do. *)
AnyFitting(dir, machine) == Fitting(dir, machine) # {}

OneFitting(dir, machine) == Cardinality(Fitting(dir, machine)) = 1

(* Search.program: the one named; the one HotPl8 installed; the first       *)
(* codex.exe of PATH; the one inside a package; and off Windows the plain   *)
(* command.  A script is never started in its place.                        *)
Program(s) ==
  LET commands == SelectSeq(s.path, LAMBDA d : CommandIn(d, s.windows))
      bases == commands \o s.libraries
      exe == FirstWith(s.path, LAMBDA d : d.exe)
      package == FirstWith(bases, LAMBDA d : OneFitting(d, s.machine))
      plain == FirstWith(s.path, LAMBDA d : d.plain)
  IN CASE s.named # "" -> IF s.named = "missing" THEN <<"codex_missing">>
                          ELSE IF s.named = "script" THEN <<"native_codex_required">> ELSE <<"named">>
       [] s.named = "" /\ s.managed -> <<"managed">>
       [] s.named = "" /\ ~ s.managed /\ exe # 0 -> <<"exe", s.path[exe].name>>
       [] OTHER -> IF package # 0 THEN <<"package", bases[package].name, CHOOSE f \in Fitting(bases[package], s.machine) : TRUE>>
                   ELSE IF ~ s.windows /\ plain # 0 THEN <<"plain", s.path[plain].name>>
                   ELSE <<"codex_missing">>

-----------------------------------------------------------------------------
(* The lines of its output *)

Returns == "\r"
Feeds == "\n"

(* Slip: a line feed after a carriage return ends a line of its own, if     *)
(* they are not read at once.                                               *)
SplitHere(state, first) == state.returned /\ ~ first

(* A line ends at a line feed, a carriage return, or the two together. *)
Together(state, first) == state.returned

(* One character; after a line that is too long nothing is read. *)
Pass(state, char, first) ==
  IF state.stopped \/ (char = Feeds /\ Together(state, first)) THEN [state EXCEPT !.returned = FALSE]
  ELSE IF char \in {Feeds, Returns}
  THEN [lines |-> Append(state.lines, state.line), line |-> <<>>, returned |-> char = Returns, stopped |-> FALSE]
  ELSE LET long == Len(state.line) = LineLimit IN
       [lines |-> IF long THEN Append(state.lines, <<"too long">>) ELSE state.lines,
        line |-> Append(state.line, char), returned |-> FALSE, stopped |-> long]

Chunk(state, chunk) ==
  FoldLeft(LAMBDA s, i : Pass(s, chunk[i], i = 1), state, [i \in DOMAIN chunk |-> i])

(* lines: what is left when the output ends is a line too. *)
LinesOf(chunks) ==
  LET read == FoldLeft(Chunk, [lines |-> <<>>, line |-> <<>>, returned |-> FALSE, stopped |-> FALSE], chunks) IN
  IF read.line = <<>> \/ read.stopped THEN read.lines ELSE Append(read.lines, read.line)

-----------------------------------------------------------------------------
(* One line *)

(* A refusal is told by its number alone. *)
Refusal(code) ==
  CASE code \in {"-32600", "401"} -> "authentication_required"
    [] code = "403" -> "access_denied"
    [] code = "429" -> "rate_limited"
    [] OTHER -> "rpc_failed"

Nothing == [says |-> "nothing"]

(* Slip: the next answer is the answer. *)
SaidByAny(line, id) ==
  IF line.text = "blank" THEN Nothing
  ELSE IF line.text = "broken" THEN [says |-> "failed", name |-> "invalid_json"]
  ELSE IF line.id = 0 THEN Nothing
  ELSE IF line.error # "" THEN [says |-> "failed", name |-> Refusal(line.error)]
  ELSE IF line.result = <<>> THEN [says |-> "failed", name |-> "invalid_response"]
  ELSE [says |-> "result", result |-> line.result]

(* What one line is to the request numbered id: a notice, an answer to      *)
(* another request, or nothing; what was asked for; or a failure.           *)
Said(line, id) ==
  IF line.text = "blank" THEN Nothing
  ELSE IF line.text = "broken" THEN [says |-> "failed", name |-> "invalid_json"]
  ELSE IF line.id # id THEN Nothing
  ELSE IF line.error # "" THEN [says |-> "failed", name |-> Refusal(line.error)]
  ELSE IF line.result = <<>> THEN [says |-> "failed", name |-> "invalid_response"]
  ELSE [says |-> "result", result |-> line.result]

-----------------------------------------------------------------------------
(* Properties *)

(* However the system hands the output over, its lines are the same.        *)
ReadWhole(text, cut) ==
  LinesOf(<<SubSeq(text, 1, cut), SubSeq(text, cut + 1, Len(text))>>) = LinesOf(<<text>>)

(* What is started is a program, for this machine if there is one for it,   *)
(* and a directory of PATH with nothing of Codex in it makes no difference. *)
FoundAlike(s, i, empty) ==
  LET found == Program(s) IN
  /\ Program([s EXCEPT !.path = SubSeq(@, 1, i) \o <<empty>> \o SubSeq(@, i + 1, Len(@))]) = found
  /\ s.named = "script" => found[1] = "native_codex_required"
  /\ found[1] = "package" =>
       \A d \in Range(s.path \o s.libraries) : d.name = found[2] => Fitting(d, s.machine) = {found[3]}

=============================================================================
