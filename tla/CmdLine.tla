------------------------------ MODULE CmdLine ------------------------------
(***************************************************************************)
(* One run of qemu_mgr from the command line: CommandLineParse turns the   *)
(* words of argv into a list of actions, which main performs.  A word is a *)
(* record of what the parser can tell about it; the same word is an option *)
(* in one position and the value of the option before it in another.       *)
(***************************************************************************)
EXTENDS Integers, Sequences

CONSTANTS
  Key,           \* names of settings
  Value,         \* their values
  TemplateOf,    \* TemplateOf[v]: the settings of the template called v
  MaxOptions     \* bound: words after the name of the VM

ASSUME CmdLineAssumption ==
  /\ MaxOptions \in Nat
  /\ {"iso", "image", "memory"} \subseteq Key
  /\ TemplateOf \in [Value \cup {"Generic"} -> UNION {[K -> Value] : K \in SUBSET Key}]

\* A missing value is stored as the empty string.
Empty == ""

\* "-mem", "-su", "-template", "memory=512", and words without a meaning.
OptionWord   == [kind : {"option"}, key : Key]
AssignWord   == [kind : {"assign"}, key : Key, value : Value]
PlainWord    == [kind : {"plain"}, text : Value]
SuWord       == [kind |-> "su"]
TemplateWord == [kind |-> "template"]
Word == OptionWord \cup AssignWord \cup PlainWord \cup {SuWord, TemplateWord}

\* Commands that are followed by a name and options, and what they ask for.
Asks == [create |-> "ACT_CREATE", add |-> "ACT_ADD", import |-> "ACT_ADD",
         change |-> "ACT_CHANGE", delete |-> "ACT_DELETE", start |-> "ACT_START",
         stop |-> "ACT_STOP", help |-> "ACT_HELP"]

\* Commands with a fixed number of arguments after the name.
Takes == [mediaadd |-> 2, mediadel |-> 1, snapshot |-> 2, backup |-> 2, info |-> 0,
          sendkey |-> 1, sendstring |-> 1, screenshot |-> 1]

\* Commands the parser carries out itself.
Direct == {"list", "list-usb", "list-templates", "vnc"}

Head1 == DOMAIN Asks \cup DOMAIN Takes \cup Direct \cup {"none", "-su", "-i", "unknown"}

VARIABLES
  command,   \* the first word, or "none"
  words,     \* those after the name of the VM; none, if that is missing
  curr,      \* how many of them have been read
  pc,        \* "command", "name", "options", "arguments", "perform", "ended", "crashed"
  vars,      \* the settings collected: a function on some of the keys
  su,        \* CONF_USE_SU
  actions,   \* the list of actions
  done       \* what has been performed, in order

cmdVars == <<command, words, curr, pc, vars, su, actions, done>>

-----------------------------------------------------------------------------
\* CommandLineNext: the next word, or NULL at the end, as often as it is asked.
Null == [kind |-> "null"]
UncheckedNext(n) == n + 1  \* mutant: the end is not looked at
NextCurr(n) == IF n <= Len(words) THEN n + 1 ELSE n
WordAt(n) == IF n \in DOMAIN words THEN words[n] ELSE Null

\* A word in the position of a value: any word is one.
AsValue(w) == CASE w.kind = "plain" -> w.text [] w = Null -> Empty [] OTHER -> w.kind

\* SetVar on a new list: a name occurs once.
FirstWins(f, k, v) ==  \* mutant
  IF k \in DOMAIN f THEN f ELSE [x \in DOMAIN f \cup {k} |-> IF x = k THEN v ELSE f[x]]
SetVar(f, k, v) == [x \in DOMAIN f \cup {k} |-> IF x = k THEN v ELSE f[x]]

\* ImageConfigUpdate with the text of a template; one that is not found is empty.
Settings(v) == IF v \in DOMAIN TemplateOf THEN TemplateOf[v] ELSE [x \in {} |-> Empty]
Update(f, g) == [x \in DOMAIN f \cup DOMAIN g |-> IF x \in DOMAIN g THEN g[x] ELSE f[x]]

Init ==
  /\ command \in Head1
  /\ words \in UNION {[1..n -> IF command \in DOMAIN Asks THEN Word ELSE {SuWord}] :
                       n \in 0..(IF command \in DOMAIN Asks \cup DOMAIN Takes THEN MaxOptions ELSE 0)}
  /\ curr = 0
  /\ pc = "command"
  /\ vars = [x \in {} |-> Empty]
  /\ su = FALSE
  /\ actions = <<>>
  /\ done = <<>>

Act(type) == [type |-> type, options |-> vars]

\* CommandLineParse looks at the first word.  What it carries out itself, and
\* "-su", leave the list of actions empty: that is the interactive mode.
ReadCommand ==
  /\ pc = "command"
  /\ \/ /\ command \in DOMAIN Asks \cup DOMAIN Takes
        /\ pc' = "name"
        /\ UNCHANGED <<su, actions, done>>
     \/ /\ command \in Direct
        /\ done' = Append(done, Act(command))
        /\ pc' = "perform"
        /\ UNCHANGED <<su, actions>>
     \/ /\ command \in {"none", "-su"}
        /\ su' = (command = "-su")
        /\ pc' = "perform"
        /\ UNCHANGED <<actions, done>>
     \/ /\ command \in {"-i", "unknown"}
        /\ actions' = <<Act(IF command = "-i" THEN "ACT_INTERACTIVE" ELSE "ACT_FAIL")>>
        /\ pc' = "perform"
        /\ UNCHANGED <<su, done>>
  /\ UNCHANGED <<command, words, curr, vars>>

\* The name of the VM is copied; "create" begins with a template.
ReadName ==
  /\ pc = "name"
  /\ vars' = IF command = "create" THEN Settings("Generic") ELSE vars
  /\ pc' = IF command \in DOMAIN Asks THEN "options" ELSE "arguments"
  /\ UNCHANGED <<command, words, curr, su, actions, done>>

\* One round of the loop of CommandLineParseImageArgs: an option takes the next
\* word, whatever that is, for its value.  The name of a template that is
\* missing is dereferenced.
ReadOption ==
  /\ pc = "options"
  /\ LET n == NextCurr(curr)  w == WordAt(n)  v == AsValue(WordAt(NextCurr(n))) IN
     /\ w # Null
     /\ curr' = IF w.kind \in {"option", "template"} THEN NextCurr(n) ELSE n
     /\ su' = (su \/ w = SuWord)
     /\ vars' = CASE w.kind = "option"   -> SetVar(vars, w.key, v)
                  [] w.kind = "template" -> Update(vars, Settings(v))
                  [] w.kind = "assign"   -> SetVar(vars, w.key, w.value)
                  [] w.kind = "plain"    -> SetVar(vars, w.text, Empty)
                  [] w.kind = "su"       -> vars
     /\ pc' = IF w = TemplateWord /\ WordAt(NextCurr(n)) = Null THEN "crashed" ELSE pc
  /\ UNCHANGED <<command, words, actions, done>>

\* CommandLineValidateCommand returns FALSE to both kinds of command that it
\* examines, after a message if something is missing.
Valid(type) == type \notin {"ACT_CREATE", "ACT_ADD"}

OptionsRead ==
  /\ pc = "options"
  /\ WordAt(NextCurr(curr)) = Null
  /\ curr' = NextCurr(curr)
  /\ actions' = <<Act(IF Valid(Asks[command]) THEN Asks[command] ELSE "ACT_FAIL")>>
  /\ pc' = "perform"
  /\ UNCHANGED <<command, words, vars, su, done>>

\* The arguments of the other commands.  "media-add" compares its second one
\* with the prefixes of archives, and so dereferences NULL if it is missing.
ReadArguments ==
  /\ pc = "arguments"
  /\ curr' = IF curr + Takes[command] <= Len(words) THEN curr + Takes[command]
             ELSE Len(words) + 1
  /\ \/ /\ command = "mediaadd"
        /\ curr' > Len(words)
        /\ pc' = "crashed"
        /\ UNCHANGED actions
     \/ /\ command # "mediaadd" \/ curr' <= Len(words)
        /\ actions' = <<Act(command)>>
        /\ pc' = "perform"
  /\ UNCHANGED <<command, words, vars, su, done>>

\* main: with nothing to do the front ends are started.  ACT_FAIL does nothing.
Perform ==
  /\ pc = "perform"
  /\ LET todo == IF actions = <<>> THEN <<Act("ACT_INTERACTIVE")>> ELSE actions IN
     done' = done \o SelectSeq(todo, LAMBDA a : a.type # "ACT_FAIL")
  /\ pc' = "ended"
  /\ UNCHANGED <<command, words, curr, vars, su, actions>>

Next == ReadCommand \/ ReadName \/ ReadOption \/ OptionsRead \/ ReadArguments \/ Perform

Spec == Init /\ [][Next]_cmdVars

-----------------------------------------------------------------------------
(* Properties.                                                             *)

\* No word past the NULL at the end of argv is ever asked for.
TypeOK ==
  /\ curr \in 0..Len(words) + 1
  /\ pc \in {"command", "name", "options", "arguments", "perform", "ended", "crashed"}
  /\ DOMAIN vars \subseteq Key \cup Value
  /\ su \in BOOLEAN

Ended == pc = "ended"
Performed(type) == \E i \in DOMAIN done : done[i].type = type

\* Which words are options: all but those that an option took for its value.
Role[n \in Nat] ==
  IF n > 1 /\ Role[n - 1] = "option" /\ words[n - 1].kind \in {"option", "template"}
       THEN "value" ELSE "option"

\* What word n gives to key k, if it is there to give it a value.
Gives(n, k) ==
  LET w == words[n]  v == AsValue(WordAt(n + 1)) IN
  CASE w.kind = "option"   -> IF w.key = k THEN {v} ELSE {}
    [] w.kind = "assign"   -> IF w.key = k THEN {w.value} ELSE {}
    [] w.kind = "plain"    -> IF w.text = k THEN {Empty} ELSE {}
    [] w.kind = "template" -> IF k \in DOMAIN Settings(v) THEN {Settings(v)[k]} ELSE {}
    [] OTHER               -> {}

\* A setting that is passed on to the VM is the last one that was given for its
\* key, by an option or by a template, and "-su" counts wherever it is not
\* taken for the value of another option.
LastGivenCounts ==
  (Ended /\ command \in DOMAIN Asks) =>
    /\ \A k \in Key : \A n \in 1..Len(words) :
         (/\ Role[n] = "option"
          /\ Gives(n, k) # {}
          /\ \A m \in n + 1..Len(words) : Role[m] = "option" => Gives(m, k) = {})
           => k \in DOMAIN vars /\ vars[k] \in Gives(n, k)
    /\ su = \E n \in 1..Len(words) : Role[n] = "option" /\ words[n] = SuWord

\* README.md:46: "create a vm from a .iso file. 'options' must include a '-iso'
\* option specifying the path to the .iso file".
CreateCreates ==
  (/\ Ended /\ command = "create"
   /\ "iso" \in DOMAIN vars /\ vars["iso"] \in Value) => Performed("ACT_CREATE")
=============================================================================
