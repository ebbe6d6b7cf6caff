----------------------------- MODULE Arguments ------------------------------
(***************************************************************************)
(* A command line, from the keyboard to the point where dispatch accepts   *)
(* or refuses it: shell completion offers words while it is typed          *)
(* (cli/complete.go), and Run reads it (cli/cli.go), in rounds of the flag *)
(* package's Parse, which stops at the first word that is no flag.         *)
(*                                                                         *)
(* What a word is to the flag package is a constant: Flag gives the words  *)
(* that start with dashes their number, their flag, and the value after    *)
(* "=", if any. One or two dashes are the same to the flag package.        *)
(***************************************************************************)
EXTENDS Integers, Sequences, FiniteSets, Lists

CONSTANTS
  Words,        \* what a user may type
  Lines,        \* what is typed to start with
  Commands,     \* name -> [names, ownArgs, watch, byOwner, sort]: the registry
  Toggled,      \* word -> the word with its final "s" dropped or added
  Flag,         \* word -> [dashes, name, value], value None without "="
  Global,       \* the flags of every command: name -> "bool" or "string"
  Optional,     \* those of some commands, likewise
  Tokens,       \* the words completion offers for the global flags
  OptionalTokens, \* flag of Optional -> the words offered for it
  BadPatterns,  \* words path.Match rejects
  Durations,    \* words ParseDuration reads
  LowIntervals, \* those of them that are less than the minimum
  ColorModes,
  Clusters,     \* context -> its namespaces; "" is the current context
  None,         \* nil
  MaxWords      \* bound: words added to what the line starts with

VARIABLES
  line,      \* the words typed
  offered,   \* the positions that completion filled in
  run        \* [phase, left, at, from, pos, set, code, blame]: Run; see Idle

vars == <<line, offered, run>>

(* left counts the words that may still be typed, for the bound;            *)
(* at is the word Parse looks at and from the first word of its round; pos  *)
(* the positions of the positional words, set what each flag is set to;     *)
(* blame is the position of the word that a refusal is about, 0 when it is  *)
(* about a word that is missing.                                            *)
Idle == [phase |-> "typing", left |-> MaxWords, at |-> 1, from |-> 1, pos |-> <<>>, set |-> <<>>,
         code |-> None, blame |-> 0]

-----------------------------------------------------------------------------
(* The registry. *)

(* lookup: the exact name wins over the toggled one. *)
Lookup(w) ==
  IF w \in DOMAIN Commands THEN w
  ELSE IF w \in DOMAIN Toggled /\ Toggled[w] \in DOMAIN Commands THEN Toggled[w]
  ELSE None

(* A slip for the mutants: every command takes every flag. *)
OnEvery(c, f) == TRUE

(* commandFlags' on. *)
On(c, f) ==
  CASE f = "sort" -> Commands[c].sort # {}
    [] f \in {"watch", "w", "interval"} -> Commands[c].watch
    [] f = "by-owner" -> Commands[c].byOwner

Registered(c) == DOMAIN Global \cup {f \in DOMAIN Optional : On(c, f)}
Kind(f) ==
  CASE f \in DOMAIN Global -> Global[f] [] f \in DOMAIN Optional -> Optional[f] [] OTHER -> None

IsFlag(w) == w \in DOMAIN Flag
Inline(w) == IsFlag(w) /\ Flag[w].value # None

Command == Lookup(line[1])

(* -n and --namespace set one variable. *)
Canonical(f) == CASE f = "n" -> "namespace" [] f = "A" -> "all-namespaces" [] f = "w" -> "watch"
                  [] OTHER -> f

Value(f) == IF f \in DOMAIN run.set THEN run.set[f].value ELSE None

-----------------------------------------------------------------------------
(* Completion. *)

(* chosenCommand: the first word that resolves, whatever it is there for. *)
Chosen(prior) ==
  LET at == {i \in DOMAIN prior : Lookup(prior[i]) # None} IN
    IF at = {} THEN None ELSE Lookup(prior[CHOOSE i \in at : \A j \in at : i <= j])

(* namespaceCompletions: the context to ask, from "--context x" and         *)
(* "--context=x"; a "--context" that ends the line stops the search.        *)
Contexts(prior) ==
  {i \in DOMAIN prior :
     /\ IsFlag(prior[i]) /\ Flag[prior[i]].dashes = 2 /\ Flag[prior[i]].name = "context"
     /\ Inline(prior[i]) \/ i < Len(prior)}

AskedContext(prior) ==
  IF Contexts(prior) = {} THEN ""
  ELSE LET i == CHOOSE i \in Contexts(prior) : \A j \in Contexts(prior) : j <= i
       IN  IF Inline(prior[i]) THEN Flag[prior[i]].value ELSE prior[i + 1]

(* completions: the words offered after prior, by whether the word begun    *)
(* starts with a dash. The namespaces may not come within completionTimeout.*)
Offers(prior, dash) ==
  LET prev == IF prior = <<>> THEN "" ELSE prior[Len(prior)]
      cmd == Chosen(prior)
  IN  IF prior # <<>> /\ prior[1] = "completion"
        THEN IF dash THEN {"--dir"} ELSE {"install"}
      ELSE IF prev = "--sort"
        THEN IF dash \/ cmd = None THEN {} ELSE Commands[cmd].sort
      ELSE IF prev = "--color" THEN IF dash THEN {} ELSE ColorModes
      ELSE IF prev \in {"-n", "--namespace"}
        THEN IF dash \/ AskedContext(prior) \notin DOMAIN Clusters THEN {}
             ELSE Clusters[AskedContext(prior)]
      ELSE IF dash
        THEN Tokens \cup (IF cmd = None THEN {}
               ELSE UNION {OptionalTokens[f] : f \in {g \in DOMAIN OptionalTokens : On(cmd, g)}})
      ELSE IF cmd # None THEN {}
      ELSE DOMAIN Commands \cup {"completion"}

-----------------------------------------------------------------------------
Init == line \in Lines /\ offered = {} /\ run = Idle

Adds(w) ==
  /\ run.phase = "typing" /\ run.left > 0
  /\ line' = Append(line, w) /\ run' = [run EXCEPT !.left = @ - 1]

Type(w) == Adds(w) /\ UNCHANGED offered

Tab(dash) ==
  /\ \E w \in Offers(line, dash) : Adds(w)
  /\ offered' = offered \cup {Len(line) + 1}

Step(r) == run' = r /\ UNCHANGED <<line, offered>>

Ends(code, blame) == Step([run EXCEPT !.phase = "over", !.code = code, !.blame = blame])

(* wantsWatch looks at every word, whatever it is there for. *)
WantsWatch(i) == i > 1 /\ IsFlag(line[i]) /\ Canonical(Flag[line[i]].name) = "watch"

(* Run, up to the flags: the words that are no command's name answer by     *)
(* themselves.                                                              *)
Enter ==
  /\ run.phase = "typing"
  /\ IF line = <<>> THEN Ends(1, 0)
     ELSE IF line[1] \in {"-h", "--help", "help", "-v", "--version", "version"} THEN Ends(0, 0)
     ELSE IF line[1] = "completion"
       THEN IF Len(line) = 1 THEN Ends(1, 0) ELSE Ends(IF line[2] = "install" THEN 0 ELSE 1, 2)
     ELSE IF Command = None THEN Ends(1, 1)
     ELSE IF ~Commands[Command].watch /\ \E i \in DOMAIN line : WantsWatch(i)
       THEN Ends(1, CHOOSE i \in DOMAIN line : WantsWatch(i))
     ELSE Step([run EXCEPT !.phase = "parsing", !.at = 2, !.from = 2])

-----------------------------------------------------------------------------
(* parseInterspersed: one flag, or the end of a round. *)

Parsing == run.phase = "parsing"
More == Parsing /\ run.at <= Len(line)

Here == line[run.at]

Sets(f, v, i, next) ==
  Step([run EXCEPT !.at = next,
          !.set = [g \in DOMAIN run.set \cup {Canonical(f)} |->
                     IF g = Canonical(f) THEN [value |-> v, by |-> i] ELSE run.set[g]]])

(* A switch takes a truth value and a DurationVar a duration.               *)
Rejects(f, v) ==
  \/ Kind(f) = "bool" /\ v \notin {"true", "false"}
  \/ f \in {"interval", "request-timeout"} /\ v \notin Durations

(* FlagSet.parseOne on a flag. An undefined one, -h among them, a missing   *)
(* value and a rejected one are errors.                                     *)
ParseFlag ==
  /\ More /\ IsFlag(Here)
  /\ LET f == Flag[Here].name IN
       IF f \notin Registered(Command) THEN Ends(1, run.at)
       ELSE IF Inline(Here)
         THEN IF Rejects(f, Flag[Here].value) THEN Ends(1, run.at)
              ELSE Sets(f, Flag[Here].value, run.at, run.at + 1)
       ELSE IF Kind(f) = "bool" THEN Sets(f, "true", run.at, run.at + 1)
       ELSE IF run.at = Len(line) THEN Ends(1, 0)
       ELSE IF Rejects(f, line[run.at + 1]) THEN Ends(1, run.at + 1)
       ELSE Sets(f, line[run.at + 1], run.at + 1, run.at + 2)

(* The rest of the line, when Parse stops at position i. A slip for the     *)
(* mutants: the "--" is never looked for.                                   *)
AfterTerminatorLost(i) == FALSE

(* args[consumed-1] == "--" *)
AfterTerminator(i) == i > run.from /\ line[i - 1] = "--"

Checking(pos) == Step([run EXCEPT !.phase = "checking", !.pos = pos])

(* Parse stops past the end, at a word, or just past a "--". *)
ParseStops ==
  /\ Parsing
  /\ run.at <= Len(line) => ~IsFlag(Here)
  /\ LET i == IF run.at <= Len(line) /\ Here = "--" THEN run.at + 1 ELSE run.at
         rest == [j \in 1..(Len(line) - i + 1) |-> i + j - 1]
     IN  IF rest = <<>> THEN Checking(run.pos)
         ELSE IF AfterTerminator(i) THEN Checking(run.pos \o rest)
         ELSE Step([run EXCEPT !.pos = Append(@, i), !.at = i + 1, !.from = i + 1])

-----------------------------------------------------------------------------
(* The checks on what was parsed, in order; blame is the culprit, Names the *)
(* first positional word that is wrong.                                     *)
Wrong ==
  IF Commands[Command].names THEN {i \in Range(run.pos) : line[i] \in BadPatterns}
  ELSE IF Commands[Command].ownArgs THEN {} ELSE Range(run.pos)

BadSort == Value("sort") \notin {None, ""} \cup Commands[Command].sort
BadInterval == Value("watch") = "true" /\ Value("interval") \in LowIntervals
BadColor == Value("color") \notin {None, ""} \cup ColorModes

Check ==
  /\ run.phase = "checking"
  /\ IF Wrong # {} THEN Ends(1, CHOOSE i \in Wrong : \A j \in Wrong : i <= j)
     ELSE IF BadSort THEN Ends(1, run.set["sort"].by)
     ELSE IF BadInterval THEN Ends(1, run.set["interval"].by)
     ELSE IF BadColor THEN Ends(1, run.set["color"].by)
     ELSE Ends(None, 0)

Over == run.phase = "over" /\ UNCHANGED vars

Next ==
  \/ \E w \in Words : Type(w)
  \/ \E dash \in BOOLEAN : Tab(dash)
  \/ Enter \/ ParseFlag \/ ParseStops \/ Check \/ Over

Spec == Init /\ [][Next]_vars

-----------------------------------------------------------------------------
(* Properties. *)

TypeOK ==
  /\ offered \subseteq DOMAIN line
  /\ run.code \in {0, 1, None} /\ run.blame \in {0} \cup DOMAIN line
  /\ Range(run.pos) \subseteq DOMAIN line

(* How kubectl reads a line, in one pass: each word's role follows from the *)
(* role of the word before it.                                              *)
TakesValue(w) == IsFlag(w) /\ ~Inline(w) /\ Kind(Flag[w].name) = "string"

Roles ==
  LET role[i \in DOMAIN line] ==
        IF i = 1 THEN "command"
        ELSE IF role[i - 1] \in {"end", "rest"} THEN "rest"
        ELSE IF role[i - 1] = "flag" /\ TakesValue(line[i - 1]) THEN "value"
        ELSE IF line[i] = "--" THEN "end"
        ELSE IF IsFlag(line[i]) THEN "flag" ELSE "name"
  IN  role

Accepted == run.phase = "over" /\ run.code = None

(* Reading in rounds is reading in one pass: a line that is accepted has    *)
(* exactly the names, in order, and the flags, each with its last value,    *)
(* that kubectl would read, wherever they stand - unless a flag's value is  *)
(* "--", which the end of a round takes for the end of the flags.           *)
Named == Kept([i \in DOMAIN line |-> i], {i \in DOMAIN line : Roles[i] \in {"name", "rest"}})

WordsRead ==
  Accepted /\ (\A i \in DOMAIN line : line[i] = "--" => Roles[i] # "value") =>
    /\ run.pos = Named
    /\ \A f \in DOMAIN run.set : Roles[run.set[f].by] \in {"flag", "value"}
    /\ \A i \in DOMAIN line : Roles[i] = "flag" =>
         LET f == Canonical(Flag[line[i]].name) IN f \in DOMAIN run.set /\ run.set[f].by >= i

(* What completion offers, dispatch accepts, as commandFlags' comment has   *)
(* it: on a line that starts with its command, and where no flag's value    *)
(* looks like a flag, a refusal never blames a word that was offered, and a *)
(* namespace offered is one of the cluster that the --context before it     *)
(* names. Two offers are broken: --version is only known before a command,  *)
(* and --dir only after install. --help after a command prints its flags,   *)
(* and exits 1.                                                             *)
Plain(i) ==
  /\ IF i = 1 THEN ~IsFlag(line[1]) ELSE Lookup(line[1]) # None \/ line[1] = "completion"
  /\ Roles[i] \notin {"rest", "end"}
  /\ \A j \in DOMAIN line : Roles[j] = "value" => ~IsFlag(line[j]) /\ line[j] # "--"
  /\ \A j \in DOMAIN line : IsFlag(line[j]) /\ Flag[line[j]].name = "context" => Flag[line[j]].dashes = 2

OffersAccepted ==
  run.phase = "over" =>
    /\ run.code = 1 /\ run.blame \in offered =>
         line[run.blame] \in {"--version", "--help", "-h", "--dir"} \/ ~Plain(run.blame)
    /\ Accepted /\ "namespace" \in DOMAIN run.set =>
         LET i == run.set["namespace"].by
             context == Value("context")
         IN  i \in offered /\ (context # None => run.set["context"].by < i) /\ Plain(i) =>
               line[i] \in Clusters[IF context = None THEN "" ELSE context]
=============================================================================
