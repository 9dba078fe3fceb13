--------------------------- MODULE CmdLine_proof ---------------------------
(***************************************************************************)
(* Proofs about CmdLine: whatever the words of a command line, and however *)
(* many, none beyond its end is asked for, and each setting is the one     *)
(* that was given last.                                                    *)
(*                                                                         *)
(* Which words are options is defined by recursion over their numbers.     *)
(* The induction theorems of the library take a predicate for parameter;   *)
(* here the predicate is a set of numbers, and WFMin of the library yields *)
(* the least number outside of it.                                         *)
(***************************************************************************)
EXTENDS CmdLine, WellFoundedInduction, SequenceTheorems, TLAPS

Below == {p \in Nat \X Nat : p[1] < p[2]}

\* Every set of numbers has a least one.
LEMMA LeastNumber ==
  ASSUME NEW T, T \subseteq Nat, T # {}
  PROVE  \E n \in T : \A m \in T : n <= m
<1>1. IsWellFoundedOn(Below, Nat)
  <2>1. OpToRel(<, Nat) = Below
    BY DEF OpToRel, Below
  <2>2. IsWellFoundedOn(OpToRel(<, Nat), Nat)
    BY NatLessThanWellFounded, Zenon
  <2> QED BY <2>1, <2>2, Zenon
<1>2. PICK n \in T : \A m \in T : <<m, n>> \notin Below
  BY <1>1, WFMin, Zenon
<1>3. ASSUME NEW m \in T PROVE n <= m
  <2>1. m \in Nat /\ n \in Nat
    OBVIOUS
  <2>2. CASE m < n
    <3>1. <<m, n>> \in Below
      BY <2>1, <2>2 DEF Below
    <3> QED BY <3>1, <1>2
  <2> QED BY <2>1, <2>2
<1> QED BY <1>3

\* Induction: a set of numbers with 0 and the successors of its members.
LEMMA Induction ==
  ASSUME NEW T, 0 \in T, \A n \in Nat : n \in T => n + 1 \in T
  PROVE  \A n \in Nat : n \in T
<1> SUFFICES ASSUME ~ \A n \in Nat : n \in T PROVE FALSE
  OBVIOUS
<1> DEFINE U == {n \in Nat : n \notin T}
<1>1. PICK n \in U : \A m \in U : n <= m
  <2>1. U \subseteq Nat /\ U # {}
    OBVIOUS
  <2> HIDE DEF U
  <2> QED BY <2>1, LeastNumber, Zenon
<1>2. n # 0
  OBVIOUS
<1>3. n - 1 \in Nat /\ n - 1 \in T
  BY <1>1, <1>2
<1>4. (n - 1) + 1 \in T
  BY <1>3
<1> QED BY <1>4

-----------------------------------------------------------------------------
(* The roles of the words.                                                 *)

RoleAfter(f, n) ==
  IF n > 1 /\ f[n - 1] = "option" /\ words[n - 1].kind \in {"option", "template"}
  THEN "value" ELSE "option"

\* A table of the roles up to word m.
RoleTable(f, m) == \A n \in 0..m : f[n] = RoleAfter(f, n)

LEMMA TableExists == \A m \in Nat : \E f : RoleTable(f, m)
<1> DEFINE T == {m \in Nat : \E f : RoleTable(f, m)}
<1>1. 0 \in T
  <2>1. RoleTable([n \in Nat |-> "option"], 0)
    BY DEF RoleTable, RoleAfter
  <2> QED BY <2>1
<1>2. ASSUME NEW m \in Nat, m \in T PROVE m + 1 \in T
  <2>1. PICK f : RoleTable(f, m)
    BY <1>2
  <2> DEFINE g == [n \in Nat |-> IF n = m + 1 THEN RoleAfter(f, n) ELSE f[n]]
  <2>2. g[m + 1] = RoleAfter(f, m + 1) /\ \A n \in 0..m : g[n] = f[n]
    OBVIOUS
  <2> HIDE DEF g
  <2>3. ASSUME NEW n \in 0..m + 1 PROVE g[n] = RoleAfter(g, n)
    <3>1. RoleAfter(g, n) = RoleAfter(f, n)
      BY <2>2 DEF RoleAfter
    <3>2. g[n] = RoleAfter(f, n)
      BY <2>1, <2>2 DEF RoleTable
    <3> QED BY <3>1, <3>2
  <2>4. RoleTable(g, m + 1)
    BY <2>3 DEF RoleTable
  <2> QED BY <2>4
<1>3. \A m \in Nat : m \in T
  <2> HIDE DEF T
  <2> QED BY <1>1, <1>2, Induction
<1> QED BY <1>3

LEMMA TablesAgree ==
  ASSUME NEW f, NEW g, NEW k \in Nat, NEW l \in Nat, k <= l,
         RoleTable(f, k), RoleTable(g, l)
  PROVE  \A n \in 0..k : f[n] = g[n]
<1> DEFINE T == {n \in Nat : n <= k => f[n] = g[n]}
<1>1. 0 \in T
  <2>1. f[0] = RoleAfter(f, 0) /\ g[0] = RoleAfter(g, 0)
    BY DEF RoleTable
  <2>2. RoleAfter(f, 0) = "option" /\ RoleAfter(g, 0) = "option"
    BY DEF RoleAfter
  <2> QED BY <2>1, <2>2
<1>2. ASSUME NEW n \in Nat, n \in T PROVE n + 1 \in T
  <2> SUFFICES ASSUME n + 1 <= k PROVE f[n + 1] = g[n + 1]
    OBVIOUS
  <2>1. RoleAfter(f, n + 1) = RoleAfter(g, n + 1)
    BY <1>2 DEF RoleAfter
  <2>2. f[n + 1] = RoleAfter(f, n + 1) /\ g[n + 1] = RoleAfter(g, n + 1)
    BY DEF RoleTable
  <2> QED BY <2>1, <2>2
<1>3. \A n \in Nat : n \in T
  <2> HIDE DEF T
  <2> QED BY <1>1, <1>2, Induction
<1> QED BY <1>3

\* The recursive definition of Role has a solution, which is what it denotes.
LEMMA RoleIs == \A n \in Nat : Role[n] = RoleAfter(Role, n)
<1> DEFINE G(m) == CHOOSE f : RoleTable(f, m)
           F == [n \in Nat |-> G(n)[n]]
<1>1. \A m \in Nat : RoleTable(G(m), m)
  BY TableExists, Zenon
<1>2. ASSUME NEW n \in Nat PROVE F[n] = RoleAfter(F, n)
  <2>1. F[n] = RoleAfter(G(n), n)
    BY <1>1 DEF RoleTable
  <2>2. ASSUME n > 1 PROVE F[n - 1] = G(n)[n - 1]
    <3>1. F[n - 1] = G(n - 1)[n - 1]
      BY <2>2
    <3>2. RoleTable(G(n - 1), n - 1) /\ RoleTable(G(n), n)
      BY <1>1, <2>2
    <3> HIDE DEF G
    <3>3. \A i \in 0..n - 1 : G(n - 1)[i] = G(n)[i]
      BY <2>2, <3>2, TablesAgree
    <3> QED BY <2>2, <3>1, <3>3
  <2> HIDE DEF F
  <2>3. RoleAfter(G(n), n) = RoleAfter(F, n)
    BY <2>2 DEF RoleAfter
  <2> QED BY <2>1, <2>3
<1>3. F = [n \in Nat |-> RoleAfter(F, n)]
  <2>1. F = [n \in Nat |-> F[n]]
    OBVIOUS
  <2> HIDE DEF F
  <2> QED BY <1>2, <2>1
<1> HIDE DEF F
<1>4. \E f : f = [n \in Nat |-> RoleAfter(f, n)]
  BY <1>3
<1>5. Role = [n \in Nat |-> RoleAfter(Role, n)]
  BY <1>4, Zenon DEF Role, RoleAfter
<1> HIDE DEF Role
<1> QED BY <1>5

-----------------------------------------------------------------------------
(* The inductive invariant.                                                *)

\* What the parser knows at each place.
Places ==
  /\ command \in Head1
  /\ words \in Seq(Word)
  /\ pc = "name" => command \in DOMAIN Asks \cup DOMAIN Takes
  /\ pc = "options" => command \in DOMAIN Asks
  /\ pc = "arguments" => command \in DOMAIN Takes

\* The words up to n have been read; of k it holds what the last of them gave.
LastUpTo(n, k) ==
  \A i \in 1..Len(words) :
    (/\ i <= n
     /\ Role[i] = "option"
     /\ Gives(i, k) # {}
     /\ \A m \in i + 1..Len(words) : m <= n /\ Role[m] = "option" => Gives(m, k) = {})
      => k \in DOMAIN vars /\ vars[k] \in Gives(i, k)

AllUpTo(n) ==
  /\ \A k \in Key : LastUpTo(n, k)
  /\ su = \E i \in 1..Len(words) : i <= n /\ Role[i] = "option" /\ words[i] = SuWord

\* The parser stands before an option, never before the value of one.
Reading ==
  /\ pc \in {"command", "name"} /\ command \in DOMAIN Asks => curr = 0 /\ su = FALSE
  /\ pc = "options" =>
       /\ curr < Len(words) => Role[curr + 1] = "option"
       /\ AllUpTo(curr)
  /\ pc \in {"perform", "ended"} /\ command \in DOMAIN Asks => AllUpTo(Len(words))

IInv == TypeOK /\ Places /\ Reading

-----------------------------------------------------------------------------
LEMMA WordFacts ==
  ASSUME NEW w \in Word
  PROVE  /\ w # Null
         /\ w.kind \in {"option", "assign", "plain", "su", "template"}
         /\ w.kind = "option" => w.key \in Key
         /\ w.kind = "assign" => w.key \in Key /\ w.value \in Value
         /\ w.kind = "plain" => w.text \in Value
         /\ w.kind = "su" <=> w = SuWord
         /\ w.kind = "template" <=> w = TemplateWord
<1>1. CASE w \in OptionWord
  BY <1>1 DEF OptionWord, Null, SuWord, TemplateWord
<1>2. CASE w \in AssignWord
  BY <1>2 DEF AssignWord, Null, SuWord, TemplateWord
<1>3. CASE w \in PlainWord
  BY <1>3 DEF PlainWord, Null, SuWord, TemplateWord
<1>4. CASE w \in {SuWord, TemplateWord}
  BY <1>4 DEF Null, SuWord, TemplateWord
<1> QED BY <1>1, <1>2, <1>3, <1>4 DEF Word

\* The command line does not change.
LEMMA WordsStay == [Next]_cmdVars => words' = words /\ command' = command
BY DEF Next, cmdVars, ReadCommand, ReadName, ReadOption, OptionsRead, ReadArguments, Perform

\* A template that is not there has no settings.
LEMMA SettingsFacts ==
  ASSUME NEW v
  PROVE  DOMAIN Settings(v) \subseteq Key
BY CmdLineAssumption DEF Settings

LEMMA InitWords == Init => words \in Seq(Word)
<1> SUFFICES ASSUME Init PROVE words \in Seq(Word)
  OBVIOUS
<1>1. PICK n \in Nat : words \in [1..n -> Word]
  BY CmdLineAssumption DEF Init, Word
<1> QED BY <1>1

LEMMA IInvInit == Init => IInv
<1> SUFFICES ASSUME Init PROVE IInv
  OBVIOUS
<1>1. words \in Seq(Word)
  BY InitWords
<1>2. TypeOK
  <2>1. DOMAIN vars = {} /\ curr = 0 /\ su = FALSE /\ pc = "command"
    BY DEF Init
  <2>2. Len(words) \in Nat
    BY <1>1
  <2>3. curr \in 0..Len(words) + 1
    BY <2>1, <2>2
  <2>4. DOMAIN vars \subseteq Key \cup Value
    BY <2>1
  <2> QED BY <2>1, <2>3, <2>4, Zenon DEF TypeOK
<1>3. Places /\ Reading
  BY <1>1 DEF Init, Places, Reading
<1> QED BY <1>2, <1>3 DEF IInv

-----------------------------------------------------------------------------
(* The end of the words.                                                   *)

LEMMA NextWord ==
  ASSUME TypeOK, Places
  PROVE  /\ WordAt(NextCurr(curr)) # Null <=> curr < Len(words)
         /\ curr < Len(words) =>
              /\ NextCurr(curr) = curr + 1
              /\ WordAt(curr + 1) = words[curr + 1]
              /\ words[curr + 1] \in Word
              /\ NextCurr(curr + 1) = curr + 2
         /\ NextCurr(curr) \in 0..Len(words) + 1
<1> DEFINE L == Len(words)
<1>1. L \in Nat /\ DOMAIN words = 1..L /\ curr \in 0..L + 1
  BY DEF TypeOK, Places
<1>2. \A i \in 1..L : words[i] \in Word /\ words[i] # Null
  BY WordFacts DEF Places
<1> HIDE DEF L
<1>3. NextCurr(curr) = IF curr <= L THEN curr + 1 ELSE curr
  BY DEF NextCurr, L
<1>4. CASE curr < L
  <2>1. NextCurr(curr) = curr + 1 /\ curr + 1 \in 1..L
    BY <1>1, <1>3, <1>4
  <2>2. WordAt(curr + 1) = words[curr + 1]
    BY <1>1, <2>1 DEF WordAt
  <2>3. NextCurr(curr + 1) = curr + 2
    BY <1>1, <1>4 DEF NextCurr, L
  <2> QED BY <1>1, <1>2, <1>4, <2>1, <2>2, <2>3 DEF L
<1>5. CASE ~ (curr < L)
  <2>1. NextCurr(curr) = L + 1
    BY <1>1, <1>3, <1>5
  <2>2. WordAt(L + 1) = Null
    BY <1>1 DEF WordAt
  <2> QED BY <1>1, <1>5, <2>1, <2>2 DEF L
<1> QED BY <1>4, <1>5

\* What an option, an assignment or a template gives is what the parser stores,
\* and nothing else changes.
LEMMA StoresWhatIsGiven ==
  ASSUME TypeOK, Places, ReadOption, NEW k \in Key
  PROVE  LET n == curr + 1 IN
         /\ Gives(n, k) # {} => k \in DOMAIN vars' /\ vars'[k] \in Gives(n, k)
         /\ Gives(n, k) = {} /\ k \in DOMAIN vars => k \in DOMAIN vars' /\ vars'[k] = vars[k]
<1> DEFINE n == curr + 1
           w == words[n]
           v == AsValue(WordAt(n + 1))
<1>1. curr < Len(words)
  BY NextWord, Zenon DEF ReadOption
<1>2. NextCurr(curr) = n /\ WordAt(n) = w /\ w \in Word /\ NextCurr(n) = n + 1
  BY <1>1, NextWord DEF TypeOK
<1>3. vars' = CASE w.kind = "option"   -> SetVar(vars, w.key, v)
                [] w.kind = "template" -> Update(vars, Settings(v))
                [] w.kind = "assign"   -> SetVar(vars, w.key, w.value)
                [] w.kind = "plain"    -> SetVar(vars, w.text, Empty)
                [] w.kind = "su"       -> vars
  BY <1>2, Zenon DEF ReadOption
<1>4. Gives(n, k) =
        CASE w.kind = "option"   -> IF w.key = k THEN {v} ELSE {}
          [] w.kind = "assign"   -> IF w.key = k THEN {w.value} ELSE {}
          [] w.kind = "plain"    -> IF w.text = k THEN {Empty} ELSE {}
          [] w.kind = "template" -> IF k \in DOMAIN Settings(v) THEN {Settings(v)[k]} ELSE {}
          [] OTHER               -> {}
  BY DEF Gives
<1>5. w.kind \in {"option", "assign", "plain", "su", "template"}
  BY <1>2, WordFacts
<1> HIDE DEF w, v, n
<1>6. /\ Gives(n, k) # {} => k \in DOMAIN vars' /\ vars'[k] \in Gives(n, k)
      /\ Gives(n, k) = {} /\ k \in DOMAIN vars => k \in DOMAIN vars' /\ vars'[k] = vars[k]
  <2>1. CASE w.kind = "option"
    BY <1>3, <1>4, <2>1 DEF SetVar
  <2>2. CASE w.kind = "assign"
    BY <1>3, <1>4, <2>2 DEF SetVar
  <2>3. CASE w.kind = "plain"
    BY <1>3, <1>4, <2>3 DEF SetVar
  <2>4. CASE w.kind = "template"
    <3>1. vars' = Update(vars, Settings(v))
      BY <1>3, <2>4
    <3>2. Gives(n, k) = IF k \in DOMAIN Settings(v) THEN {Settings(v)[k]} ELSE {}
      BY <1>4, <2>4
    <3> QED BY <3>1, <3>2 DEF Update
  <2>5. CASE w.kind = "su"
    BY <1>3, <1>4, <2>5
  <2> QED BY <1>5, <2>1, <2>2, <2>3, <2>4, <2>5
<1> QED BY <1>6 DEF n

\* One round of the loop: the types.
LEMMA ReadOptionTypes ==
  ASSUME TypeOK, Places, ReadOption
  PROVE  TypeOK' /\ Places'
<1> DEFINE n == curr + 1
           w == words[n]
           v == AsValue(WordAt(n + 1))
<1>1. curr < Len(words)
  BY NextWord, Zenon DEF ReadOption
<1>2. NextCurr(curr) = n /\ WordAt(n) = w /\ w \in Word /\ NextCurr(n) = n + 1
  BY <1>1, NextWord DEF TypeOK
<1>3. vars' = CASE w.kind = "option"   -> SetVar(vars, w.key, v)
                [] w.kind = "template" -> Update(vars, Settings(v))
                [] w.kind = "assign"   -> SetVar(vars, w.key, w.value)
                [] w.kind = "plain"    -> SetVar(vars, w.text, Empty)
                [] w.kind = "su"       -> vars
  BY <1>2, Zenon DEF ReadOption
<1>4. /\ w.kind \in {"option", "assign", "plain", "su", "template"}
      /\ w.kind \in {"option", "assign"} => w.key \in Key
      /\ w.kind = "plain" => w.text \in Value
  BY <1>2, WordFacts
<1>5. curr' \in {n, n + 1} /\ words' = words /\ command' = command
  BY <1>2 DEF ReadOption
<1>6. su' \in BOOLEAN /\ pc' \in {"options", "crashed"} /\ pc = "options"
  BY DEF ReadOption, TypeOK
<1>7. DOMAIN vars \subseteq Key \cup Value /\ curr \in 0..Len(words) + 1
  BY DEF TypeOK
<1>8. DOMAIN Settings(v) \subseteq Key
  BY SettingsFacts
<1>9. Len(words) \in Nat
  BY DEF Places
<1> HIDE DEF w, v
<1>10. DOMAIN vars' \subseteq Key \cup Value
  <2>1. CASE w.kind = "template"
    <3>1. vars' = Update(vars, Settings(v))
      BY <1>3, <2>1
    <3> QED BY <3>1, <1>7, <1>8 DEF Update
  <2>2. CASE w.kind # "template"
    BY <1>3, <1>4, <1>7, <2>2 DEF SetVar
  <2> QED BY <2>1, <2>2
<1>11. curr' \in 0..Len(words') + 1
  BY <1>1, <1>5, <1>7, <1>9 DEF n
<1> QED BY <1>5, <1>6, <1>10, <1>11 DEF TypeOK, Places

\* One round of the loop: what has been read counts.
LEMMA ReadOptionReads ==
  ASSUME IInv, ReadOption
  PROVE  Reading'
<1> DEFINE n == curr + 1
<1>1. curr < Len(words) /\ TypeOK /\ Places
  BY NextWord, Zenon DEF IInv, ReadOption
<1>2. curr \in Nat /\ Len(words) \in Nat /\ curr < Len(words)
  BY <1>1 DEF TypeOK, Places
<1>3. /\ NextCurr(curr) = n /\ WordAt(n) = words[n]
      /\ words[n] \in Word /\ NextCurr(n) = n + 1
  BY <1>1, <1>2, NextWord
<1>4. /\ curr' = IF words[n].kind \in {"option", "template"} THEN n + 1 ELSE n
      /\ su' = (su \/ words[n] = SuWord)
      /\ words' = words
      /\ pc = "options" /\ pc' \in {"options", "crashed"}
  BY <1>3 DEF ReadOption
<1>5. Role[n] = "option" /\ AllUpTo(curr)
  BY <1>2, <1>4 DEF IInv, Reading
\* The word that follows n is an option exactly if n does not take it.
<1>6. Role[n + 1] = IF words[n].kind \in {"option", "template"} THEN "value" ELSE "option"
  <2>1. n + 1 \in Nat /\ n + 1 > 1 /\ (n + 1) - 1 = n
    BY <1>2
  <2>2. Role[n + 1] = RoleAfter(Role, n + 1)
    BY <2>1, RoleIs
  <2> QED BY <1>5, <2>1, <2>2 DEF RoleAfter
<1>7. Role[n + 1] = "value" => Role[n + 2] = "option"
  <2>1. n + 2 \in Nat /\ (n + 2) - 1 = n + 1
    BY <1>2
  <2>2. Role[n + 2] = RoleAfter(Role, n + 2)
    BY <2>1, RoleIs
  <2> QED BY <2>1, <2>2 DEF RoleAfter
<1>8. Role[curr' + 1] = "option"
  BY <1>2, <1>4, <1>6, <1>7
<1>9. \A i \in 1..Len(words) : i <= curr' <=> i <= curr \/ i = n \/ (i = n + 1 /\ curr' = n + 1)
  BY <1>2, <1>4
<1>10. \A i \in 1..Len(words) : i <= curr' /\ Role[i] = "option" => i <= curr \/ i = n
  BY <1>4, <1>6, <1>9
<1>11. n \in 1..Len(words) /\ n <= curr' /\ \A i \in 1..Len(words) : i <= curr => i <= curr' /\ i < n
  BY <1>2, <1>4
<1>12. Role' = Role
  BY <1>4, Zenon DEF Role
<1> HIDE DEF n, Role
<1>13. ASSUME NEW k \in Key, NEW i \in 1..Len(words),
              i <= curr', Role[i] = "option", Gives(i, k) # {},
              \A m \in i + 1..Len(words) : m <= curr' /\ Role[m] = "option" => Gives(m, k) = {}
       PROVE  k \in DOMAIN vars' /\ vars'[k] \in Gives(i, k)
  <2>1. CASE i = n
    BY <1>1, <1>13, <2>1, StoresWhatIsGiven DEF n
  <2>2. CASE i <= curr
    <3>1. Gives(n, k) = {}
      <4>1. n \in i + 1..Len(words)
        BY <1>2, <1>11, <2>2
      <4> QED BY <4>1, <1>5, <1>11, <1>13
    <3>2. \A m \in i + 1..Len(words) : m <= curr /\ Role[m] = "option" => Gives(m, k) = {}
      BY <1>2, <1>11, <1>13
    <3>3. k \in DOMAIN vars /\ vars[k] \in Gives(i, k)
      BY <1>5, <1>13, <2>2, <3>2 DEF AllUpTo, LastUpTo
    <3> QED BY <1>1, <3>1, <3>3, StoresWhatIsGiven DEF n
  <2> QED BY <1>10, <1>13, <2>1, <2>2
<1>14. su' = \E i \in 1..Len(words) : i <= curr' /\ Role[i] = "option" /\ words[i] = SuWord
  BY <1>4, <1>5, <1>10, <1>11 DEF AllUpTo, IInv, TypeOK
<1>15. \A i \in 1..Len(words), k \in Key : Gives(i, k)' = Gives(i, k)
  BY <1>4 DEF Gives, WordAt
<1>16. \A k \in Key : LastUpTo(curr, k)'
  BY <1>4, <1>12, <1>13, <1>15 DEF LastUpTo
<1>17. AllUpTo(curr)'
  BY <1>4, <1>12, <1>14, <1>16 DEF AllUpTo
<1> QED BY <1>4, <1>8, <1>12, <1>17 DEF Reading

\* Once all words are read it does not matter how far beyond them the parser is.
LEMMA AllRead ==
  ASSUME NEW n \in Nat, Len(words) \in Nat, Len(words) <= n, AllUpTo(n)
  PROVE  AllUpTo(Len(words))
<1>1. \A i \in 1..Len(words) : i <= n /\ i <= Len(words)
  OBVIOUS
<1>2. \A k \in Key : LastUpTo(Len(words), k)
  <2>1. \A k \in Key : \A i \in 1..Len(words) : \A m \in i + 1..Len(words) : m <= n /\ m <= Len(words)
    OBVIOUS
  <2> QED BY <1>1, <2>1 DEF AllUpTo, LastUpTo
<1> QED BY <1>1, <1>2 DEF AllUpTo

\* What AllUpTo speaks of.
LEMMA AllUpToKept ==
  ASSUME NEW n, AllUpTo(n), words' = words, vars' = vars, su' = su
  PROVE  AllUpTo(n)'
<1>1. Role' = Role
  BY Zenon DEF Role
<1> HIDE DEF Role
<1>2. \A i, k : Gives(i, k)' = Gives(i, k)
  BY DEF Gives, WordAt
<1> QED BY <1>1, <1>2 DEF AllUpTo, LastUpTo

LEMMA IInvNext == IInv /\ [Next]_cmdVars => IInv'
<1> SUFFICES ASSUME IInv, [Next]_cmdVars PROVE IInv'
  OBVIOUS
<1>0. /\ TypeOK /\ Places
      /\ words' = words /\ command' = command
      /\ curr \in 0..Len(words) + 1 /\ Len(words) \in Nat
  BY WordsStay DEF IInv, TypeOK, Places
<1>1. CASE ReadCommand
  <2>1. /\ pc = "command" /\ pc' \in {"name", "perform"}
        /\ curr' = curr /\ vars' = vars
        /\ command \in DOMAIN Asks \cup DOMAIN Takes => pc' = "name" /\ su' = su
        /\ su' \in BOOLEAN
        /\ pc' = "name" => command \in DOMAIN Asks \cup DOMAIN Takes
    BY <1>0, <1>1 DEF ReadCommand, TypeOK, Direct, Asks, Takes
  <2>2. TypeOK' /\ Places'
    BY <1>0, <2>1 DEF TypeOK, Places
  <2>3. Reading'
    BY <1>0, <2>1 DEF IInv, Reading
  <2> QED BY <2>2, <2>3 DEF IInv
<1>2. CASE ReadName
  <2>1. /\ pc = "name" /\ pc' = IF command \in DOMAIN Asks THEN "options" ELSE "arguments"
        /\ curr' = curr /\ su' = su
        /\ vars' = IF command = "create" THEN Settings("Generic") ELSE vars
    BY <1>2 DEF ReadName
  <2>2. DOMAIN vars' \subseteq Key \cup Value
    BY <2>1, SettingsFacts DEF IInv, TypeOK
  <2>3. command \in DOMAIN Asks \cup DOMAIN Takes
    BY <2>1 DEF IInv, Places
  <2>4. TypeOK' /\ Places'
    BY <1>0, <2>1, <2>2, <2>3, Zenon DEF TypeOK, Places
  <2>5. ASSUME command \in DOMAIN Asks
        PROVE  curr = 0 /\ su = FALSE /\ Role[1] = "option"
    <3>1. Role[1] = RoleAfter(Role, 1)
      BY RoleIs
    <3> QED BY <2>1, <2>5, <3>1 DEF IInv, Reading, RoleAfter
  <2>6. Role' = Role
    BY <1>0, Zenon DEF Role
  <2> HIDE DEF Role
  <2>7. ASSUME command \in DOMAIN Asks PROVE AllUpTo(curr)'
    <3>1. \A i \in 1..Len(words) : ~ (i <= 0)
      BY <1>0
    <3> QED BY <1>0, <2>1, <2>5, <2>7, <3>1 DEF AllUpTo, LastUpTo
  <2>8. command \in DOMAIN Asks => Role'[curr' + 1] = "option"
    <3> SUFFICES ASSUME command \in DOMAIN Asks PROVE Role[curr' + 1] = "option"
      BY <2>6
    <3>1. curr' + 1 = 1
      BY <2>1, <2>5
    <3> QED BY <2>5, <3>1
  <2>9. Reading'
    BY <1>0, <2>1, <2>7, <2>8 DEF Reading
  <2> QED BY <2>4, <2>9 DEF IInv
<1>3. CASE ReadOption
  BY <1>0, <1>3, ReadOptionTypes, ReadOptionReads DEF IInv
<1>4. CASE OptionsRead
  <2>1. /\ pc = "options" /\ pc' = "perform" /\ vars' = vars /\ su' = su
        /\ curr' = NextCurr(curr) /\ ~ (curr < Len(words))
    BY <1>0, <1>4, NextWord DEF OptionsRead
  <2>2. TypeOK' /\ Places'
    BY <1>0, <2>1, NextWord DEF TypeOK, Places
  <2>3. AllUpTo(Len(words))
    BY <1>0, <2>1, AllRead DEF IInv, Reading
  <2>4. AllUpTo(Len(words))'
    BY <1>0, <2>1, <2>3, AllUpToKept
  <2> QED BY <2>1, <2>2, <2>4 DEF IInv, Reading
<1>5. CASE ReadArguments
  <2>1. /\ pc = "arguments" /\ pc' \in {"crashed", "perform"}
        /\ vars' = vars /\ su' = su
        /\ curr' \in {curr + Takes[command], Len(words) + 1}
        /\ curr' = curr + Takes[command] => curr' <= Len(words) + 1
    BY <1>0, <1>5 DEF ReadArguments
  <2>2. command \in DOMAIN Takes
    BY <2>1 DEF IInv, Places
  <2>3. Takes[command] \in Nat /\ command \notin DOMAIN Asks
    BY <2>2 DEF Takes, Asks
  <2>4. TypeOK' /\ Places'
    BY <1>0, <2>1, <2>3 DEF TypeOK, Places
  <2>5. Reading'
    BY <1>0, <2>1, <2>3 DEF Reading
  <2> QED BY <2>4, <2>5 DEF IInv
<1>6. CASE Perform
  <2>1. pc = "perform" /\ pc' = "ended" /\ UNCHANGED <<curr, vars, su>>
    BY <1>6, Zenon DEF Perform
  <2>2. TypeOK' /\ Places'
    BY <1>0, <2>1 DEF TypeOK, Places
  <2>3. command \in DOMAIN Asks => AllUpTo(Len(words))'
    BY <1>0, <2>1, AllUpToKept DEF IInv, Reading
  <2> QED BY <1>0, <2>1, <2>2, <2>3 DEF IInv, Reading
<1>7. CASE UNCHANGED cmdVars
  <2>1. UNCHANGED <<pc, curr, vars, su>>
    BY <1>7 DEF cmdVars
  <2>2. TypeOK' /\ Places'
    BY <1>0, <2>1 DEF TypeOK, Places
  <2>3. Role' = Role
    BY <1>0, Zenon DEF Role
  <2> HIDE DEF Role
  <2>4. AllUpTo(Len(words)) => AllUpTo(Len(words))'
    BY <1>0, <2>1, AllUpToKept
  <2>5. AllUpTo(curr) => AllUpTo(curr)'
    BY <1>0, <2>1, AllUpToKept
  <2> QED BY <1>0, <2>1, <2>2, <2>3, <2>4, <2>5 DEF IInv, Reading
<1> QED BY <1>1, <1>2, <1>3, <1>4, <1>5, <1>6, <1>7 DEF Next

LEMMA Invariant == Spec => []IInv
BY IInvInit, IInvNext, PTL DEF Spec

-----------------------------------------------------------------------------
(* The properties.                                                         *)

\* CommandLineNext asks for no word beyond the NULL at the end of argv, however
\* the values of options are missing.
THEOREM TypeCorrect == Spec => []TypeOK
<1>1. IInv => TypeOK
  BY DEF IInv
<1> QED BY <1>1, Invariant, PTL

\* Of all that a command line gives for one setting the last counts, and "-su"
\* counts wherever no option takes it for its value.
THEOREM LastCounts == Spec => []LastGivenCounts
<1>1. IInv => LastGivenCounts
  <2> SUFFICES ASSUME IInv, Ended, command \in DOMAIN Asks PROVE LastGivenCounts
    BY DEF LastGivenCounts
  <2>1. AllUpTo(Len(words)) /\ Len(words) \in Nat
    BY DEF IInv, Reading, Ended, Places
  <2>2. \A i \in 1..Len(words) : i <= Len(words) /\ \A m \in i + 1..Len(words) : m <= Len(words)
    BY <2>1
  <2> QED BY <2>1, <2>2 DEF AllUpTo, LastUpTo, LastGivenCounts
<1> QED BY <1>1, Invariant, PTL
=============================================================================
