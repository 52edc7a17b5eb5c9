---------------------------- MODULE CommandLine ----------------------------
(***************************************************************************)
(* wmain's reading of its arguments (launcher.cpp), and their way through  *)
(* the elevated relaunch (elevation.hpp): encoded into one line, split     *)
(* again by the C runtime of the elevated launcher, and read once more.    *)
(*                                                                         *)
(* An argument is a sequence of characters.  A flag, a file name and any   *)
(* other run of harmless characters counts as one character.               *)
(***************************************************************************)
EXTENDS Naturals, Sequences, SequencesExt

CONSTANT Commands     \* the argument sequences a user may give
ASSUME CommandsAssumption == Commands \subseteq Seq(Seq(STRING))

VARIABLES
  argv,       \* the arguments of the launcher that runs
  at,         \* the index the loop is at
  pc,         \* what it does next
  opt,        \* what it has read
  log,        \* log_enabled
  elevated,   \* it has administrator rights
  asked       \* <<opt, log>> of the launcher that asked for them

commandVars == <<argv, at, pc, opt, log, elevated, asked>>

-----------------------------------------------------------------------------
(* Arguments and their encoding.                                           *)

Slash == "\\"
Quote == "\""
Blank == " "
Repeat(c, n) == [i \in 1 .. n |-> c]

\* Mutant: the backslashes before the closing quote are not doubled.
ClosingSlashesOnce(n) == n

ClosingSlashes(n) == 2 * n

\* One round of quote_argument's loop; q holds the text so far and the
\* backslashes not yet written.
QuoteCharacter(q, c) ==
  IF c = Slash
  THEN [q EXCEPT !.slashes = @ + 1]
  ELSE [text |-> q.text
                   \o Repeat(Slash, IF c = Quote THEN 2 * q.slashes + 1 ELSE q.slashes)
                   \o <<c>>,
        slashes |-> 0]

\* Its state after each number of rounds.
Quoting(argument) ==
  LET q[i \in 0 .. Len(argument)] ==
        IF i = 0 THEN [text |-> <<Quote>>, slashes |-> 0]
                 ELSE QuoteCharacter(q[i - 1], argument[i])
  IN  q

quote_argument(argument) ==
  LET q == Quoting(argument)[Len(argument)]
  IN  q.text \o Repeat(Slash, ClosingSlashes(q.slashes)) \o <<Quote>>

AddArgument(line, argument) ==
  line \o (IF line = <<>> THEN <<>> ELSE <<Blank>>) \o quote_argument(argument)

\* The line after each number of arguments.
Lines(args) ==
  LET line[i \in 0 .. Len(args)] ==
        IF i = 0 THEN <<>> ELSE AddArgument(line[i - 1], args[i])
  IN  line

parameters(args) == Lines(args)[Len(args)]

\* The C runtime reads one character of a command line.  `closed` is set just
\* after a closing quote: a second one is then a quote of the text.
ReadCharacter(r, c) ==
  LET all == [r EXCEPT !.word = @ \o Repeat(Slash, r.slashes),
                       !.slashes = 0, !.closed = FALSE]
      half == [all EXCEPT !.word = r.word \o Repeat(Slash, r.slashes \div 2),
                          !.inside = TRUE]
      AddTo(s) == [s EXCEPT !.word = Append(@, c), !.inside = TRUE]
  IN  CASE c = Slash -> [r EXCEPT !.slashes = @ + 1, !.inside = TRUE, !.closed = FALSE]
        [] c = Quote /\ r.slashes % 2 = 1 -> AddTo(half)
        [] c = Quote /\ r.slashes % 2 = 0 /\ r.closed ->
             [AddTo(half) EXCEPT !.quoted = TRUE]
        [] c = Quote /\ r.slashes % 2 = 0 /\ ~r.closed ->
             [half EXCEPT !.quoted = ~@, !.closed = r.quoted]
        [] c = Blank /\ ~r.quoted ->
             IF r.inside THEN [all EXCEPT !.args = Append(@, all.word),
                                          !.word = <<>>, !.inside = FALSE]
                         ELSE all
        [] OTHER -> AddTo(all)

NothingSplit == [args |-> <<>>, word |-> <<>>, slashes |-> 0, inside |-> FALSE,
                 quoted |-> FALSE, closed |-> FALSE]

\* What it has read after each character.
Splitting(line) ==
  LET read[i \in 0 .. Len(line)] ==
        IF i = 0 THEN NothingSplit ELSE ReadCharacter(read[i - 1], line[i])
  IN  read

\* Line and a blank, so that the last argument ends like the others.
SplitLine(line) == Splitting(Append(line, Blank))[Len(line) + 1].args

-----------------------------------------------------------------------------
(* The registry and the options.                                           *)

GameFlags == {"--GI", "--SR", "--ZZZ", "--WW"}
Executables(kind) ==
  CASE kind = "--GI" -> {"YuanShen.exe", "GenshinImpact.exe"}
    [] kind = "--SR" -> {"StarRail.exe"}
    [] kind = "--ZZZ" -> {"ZenlessZoneZero.exe"}
    [] kind = "--WW" -> {"Client-Win64-Shipping.exe"}
RequiresExplicitPath(kind) == kind # "--ZZZ"

Directory == <<"C:", Slash>>
DefaultGame == Directory \o <<"ZenlessZoneZero.exe">>
Canonical(path) == IF path # <<>> /\ Head(path) = "C:" THEN path ELSE Directory \o path

RelaunchFlag == "--elevation-relaunch"
Helps == {"--help", "-h"}
Actions == {"--probe", "--probe-auto"}
Valued == {"--game", "--extra"}

NothingRead == [kind |-> "none", game |-> DefaultGame, extra |-> <<>>,
                given |-> {}, marker |-> FALSE, forwarded |-> <<>>]
NotAsked == <<>>

CommandInit ==
  /\ argv \in Commands
  /\ at = 1
  /\ pc = "scan"
  /\ opt = NothingRead
  /\ log = FALSE
  /\ elevated \in BOOLEAN
  /\ asked = NotAsked

\* One word in the first loop, which may be the value of the option before.
ScanWord(s, word) ==
  [log |-> s.log \/ (~s.value /\ word = <<"--log">>),
   value |-> ~s.value /\ \E f \in Valued : word = <<f>>]

Scanning(args) ==
  LET scan[i \in 0 .. Len(args)] ==
        IF i = 0 THEN [log |-> FALSE, value |-> FALSE]
                 ELSE ScanWord(scan[i - 1], args[i])
  IN  scan

\* The first loop: --log anywhere but as the value of another option.
ScanForLog ==
  /\ pc = "scan"
  /\ pc' = "read"
  /\ log' = Scanning(argv)[Len(argv)].log
  /\ UNCHANGED <<argv, at, opt, elevated, asked>>

-----------------------------------------------------------------------------
(* The second loop, one action for each of its branches.                   *)

Reading == pc = "read" /\ at <= Len(argv)
IsFlag(f) == argv[at] = <<f>>

Forward(words) == opt.forwarded \o words

Took(n, new) ==
  /\ at' = at + n
  /\ opt' = new
  /\ UNCHANGED <<argv, pc, log, elevated, asked>>

Stop(where) == pc' = where /\ UNCHANGED <<argv, at, opt, log, elevated, asked>>

AsksHelp == Reading /\ (\E h \in Helps : IsFlag(h)) /\ Stop("usage")

TakesMarker ==
  /\ Reading /\ IsFlag(RelaunchFlag) /\ ~opt.marker
  /\ Took(1, [opt EXCEPT !.marker = TRUE])

SelectsGame ==
  /\ Reading /\ opt.kind = "none"
  /\ \E k \in GameFlags :
       IsFlag(k) /\ Took(1, [opt EXCEPT !.kind = k, !.forwarded = Forward(<<argv[at]>>)])

TakesPath ==
  /\ Reading /\ IsFlag("--game") /\ at < Len(argv) /\ "game" \notin opt.given
  /\ LET game == Canonical(argv[at + 1])
     IN  Took(2, [opt EXCEPT !.game = game, !.given = @ \cup {"game"},
                             !.forwarded = Forward(<<argv[at], game>>)])

TakesExtra ==
  /\ Reading /\ IsFlag("--extra") /\ at < Len(argv) /\ "extra" \notin opt.given
  /\ Took(2, [opt EXCEPT !.extra = argv[at + 1], !.given = @ \cup {"extra"},
                         !.forwarded = Forward(<<argv[at], argv[at + 1]>>)])

TakesAction ==
  /\ Reading /\ (\E a \in Actions : IsFlag(a)) /\ "action" \notin opt.given
  /\ Took(1, [opt EXCEPT !.given = @ \cup {"action"},
                         !.forwarded = Forward(<<argv[at]>>)])

TakesLog ==
  /\ Reading /\ IsFlag("--log")
  /\ Took(1, [opt EXCEPT !.forwarded = Forward(<<argv[at]>>)])

\* Unknown, incomplete or given twice.
Refuses ==
  /\ Reading
  /\ \/ IsFlag(RelaunchFlag) /\ opt.marker
     \/ (\E k \in GameFlags : IsFlag(k)) /\ opt.kind # "none"
     \/ IsFlag("--game") /\ (at = Len(argv) \/ "game" \in opt.given)
     \/ IsFlag("--extra") /\ (at = Len(argv) \/ "extra" \in opt.given)
     \/ (\E a \in Actions : IsFlag(a)) /\ "action" \in opt.given
     \/ \A f \in GameFlags \cup Helps \cup Actions \cup Valued
                  \cup {RelaunchFlag, "--log"} : ~IsFlag(f)
  /\ Stop("error")

-----------------------------------------------------------------------------
(* What follows the loops.                                                 *)

Valid ==
  /\ opt.kind # "none"
  /\ "action" \in opt.given => opt.kind = "--ZZZ"
  /\ RequiresExplicitPath(opt.kind) => "game" \in opt.given
  /\ Last(opt.game) \in Executables(opt.kind)

\* The executable may be missing although all is well with the options.
Validates ==
  /\ pc = "read" /\ at > Len(argv)
  /\ \/ Valid /\ Stop(IF "action" \in opt.given THEN "probe" ELSE "elevation")
     \/ Stop("error")

HasRights == pc = "elevation" /\ elevated /\ Stop("launch")

\* A relaunched launcher without rights does not ask again.
GivesUp == pc = "elevation" /\ ~elevated /\ opt.marker /\ Stop("error")

Canceled == pc = "elevation" /\ ~elevated /\ ~opt.marker /\ Stop("canceled")

\* relaunch(): another launcher, which starts from the line it is given.
Relaunches ==
  /\ pc = "elevation" /\ ~elevated /\ ~opt.marker
  /\ asked' = <<opt, log>>
  /\ argv' = SplitLine(parameters(Append(opt.forwarded, <<RelaunchFlag>>)))
  /\ at' = 1
  /\ pc' = "scan"
  /\ opt' = NothingRead
  /\ log' = FALSE
  /\ elevated' \in BOOLEAN

CommandNext ==
  \/ ScanForLog
  \/ AsksHelp \/ TakesMarker \/ SelectsGame \/ TakesPath \/ TakesExtra
  \/ TakesAction \/ TakesLog \/ Refuses
  \/ Validates \/ HasRights \/ GivesUp \/ Canceled \/ Relaunches

-----------------------------------------------------------------------------
\* The elevated launcher understands exactly the command the user gave: what
\* was selected, the path, the extra text to the last backslash and quote, the
\* logging; none of it is lost, split or refused on the way through the line.
RelaunchKeepsTheCommand ==
  asked # NotAsked /\ pc \notin {"scan", "read"} =>
    <<opt, log>> = <<[asked[1] EXCEPT !.marker = TRUE], asked[2]>>
=============================================================================
