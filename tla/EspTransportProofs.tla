-------------------------- MODULE EspTransportProofs -------------------------
(***************************************************************************)
(* How commands reach bolty-esp32: EspConsole for lines of any length and  *)
(* any number of keys, EspBle for any number of clients, connections and   *)
(* commands; and the parts of the device together, with those of           *)
(* EspDeviceProofs, as MCEspDevice composes them.                          *)
(***************************************************************************)
EXTENDS MCEspDevice, EspDeviceProofs, FiniteSetTheorems, WellFoundedInduction, TLAPS

------------------------------------------------------------------------------
(* Sequences, by their length and their elements.                            *)

(* A sequence is a function on the numbers up to its length.                 *)
LEMMA SeqIsFunction ==
  ASSUME NEW S, NEW s \in Seq(S)
  PROVE  /\ Len(s) \in Nat /\ s \in [1..Len(s) -> S] /\ DOMAIN s = 1..Len(s)
         /\ \A i \in 1..Len(s) : s[i] \in S
OBVIOUS

(* One element replaced, and the rest as it was.                             *)
LEMMA SeqReplaced ==
  ASSUME NEW S, NEW s \in Seq(S), NEW i \in 1..Len(s), NEW e \in S
  PROVE  LET r == [s EXCEPT ![i] = e]
         IN  r \in Seq(S) /\ Len(r) = Len(s) /\ \A j \in 1..Len(s) : r[j] = IF j = i THEN e ELSE s[j]
OBVIOUS

------------------------------------------------------------------------------
(* Induction over a range of numbers, and the words of a line.               *)

(* Any set of numbers has a least element.                                   *)
LEMMA Least == ASSUME NEW T \in SUBSET Nat, T # {} PROVE \E x \in T : \A y \in T : x <= y
<1> DEFINE R == {ss \in Nat \X Nat : ss[1] < ss[2]}
<1>1. IsWellFoundedOn(R, Nat)
  BY NatLessThanWellFounded DEF OpToRel
<1>2. \A x, y \in Nat : y < x => <<y, x>> \in R
  OBVIOUS
<1> HIDE DEF R
<1>3. PICK x \in T : \A y \in T : ~(<<y, x>> \in R)
  BY <1>1, WFMin, T \subseteq Nat, Zenon
<1>4. ASSUME NEW y \in T PROVE x <= y
  <2>1. x \in Nat /\ y \in Nat /\ ~(y < x)
    BY <1>2, <1>3, Zenon
  <2> QED BY <2>1
<1> QED BY <1>4, Zenon

(* Induction up to n, as a fact about a set.                                 *)
LEMMA UpTo ==
  ASSUME NEW S, NEW n \in Nat, 0 \in S, \A k \in 0..n : k \in S /\ k < n => k + 1 \in S
  PROVE  n \in S
<1> SUFFICES ASSUME n \notin S PROVE FALSE
  OBVIOUS
<1> DEFINE T == {k \in 0..n : k \notin S}
<1>1. T \in SUBSET Nat /\ n \in T
  OBVIOUS
<1>2. PICK x \in T : \A y \in T : x <= y
  BY <1>1, Least, Zenon
<1>3. x \in 1..n /\ x - 1 \in 0..n
  OBVIOUS
<1>4. x - 1 \in S
  BY <1>2, <1>3
<1> QED BY <1>3, <1>4

Symbols == Words \cup {Blank}

(* The words of a line are words.                                            *)
LEMMA WordsOfLine == ASSUME NEW text \in Seq(Symbols) PROVE WordsOf(text) \in Seq(Words)
<1> DEFINE n == Len(text)
           At(f, k) == IF k = 0 THEN <<>>
                       ELSE IF text[k] = Blank THEN f[k - 1] ELSE Append(f[k - 1], text[k])
           Steps(f, m) == [k \in 0..m |-> At(f, k)]
           S == {m \in 0..n : \E f : f = Steps(f, m)}
<1>1. n \in Nat
  OBVIOUS
<1> HIDE DEF n
<1>2. 0 \in S
  <2> DEFINE f == [k \in 0..0 |-> <<>>]
  <2>1. f = Steps(f, 0)
    OBVIOUS
  <2> HIDE DEF f, Steps
  <2> QED BY <1>1, <2>1
<1>3. ASSUME NEW k \in 0..n, k \in S, k < n PROVE k + 1 \in S
  <2>1. PICK f : f = Steps(f, k)
    BY <1>3, Zenon
  <2> DEFINE g == [j \in 0..(k + 1) |-> IF j = k + 1 THEN At(f, j) ELSE f[j]]
  <2>2. ASSUME NEW j \in 0..(k + 1) PROVE g[j] = At(g, j)
    <3>1. CASE j = 0
      BY <1>1, <2>1, <3>1
    <3>2. CASE j = k + 1
      <4>1. g[j] = At(f, j) /\ g[j - 1] = f[j - 1] /\ j # 0
        BY <1>1, <3>2
      <4> QED BY <4>1
    <3>3. CASE j \in 1..k
      <4>1. g[j] = f[j] /\ g[j - 1] = f[j - 1]
        BY <1>1, <3>3
      <4>2. f[j] = At(f, j)
        <5> HIDE DEF At
        <5> QED BY <2>1, <3>3
      <4> QED BY <3>3, <4>1, <4>2
    <3> QED BY <1>1, <3>1, <3>2, <3>3
  <2>3. g = Steps(g, k + 1)
    <3> HIDE DEF At
    <3> QED BY <2>2
  <2>4. k + 1 \in 0..n
    BY <1>1, <1>3
  <2> HIDE DEF g, Steps
  <2> QED BY <2>3, <2>4
<1> HIDE DEF S
<1>4. n \in S
  BY <1>1, <1>2, <1>3, UpTo
<1>5. \E f : f = Steps(f, n)
  BY <1>4 DEF S
<1> DEFINE of == CHOOSE f : f = Steps(f, n)
<1>6. of = Steps(of, n)
  BY <1>5, Zenon
<1>7. WordsOf(text) = of[n]
  BY Zenon DEF WordsOf, n
<1> HIDE DEF of, Steps
<1> DEFINE Q == {m \in 0..n : of[m] \in Seq(Words)}
<1>8. 0 \in Q
  BY <1>1, <1>6 DEF Steps
<1>9. ASSUME NEW k \in 0..n, k \in Q, k < n PROVE k + 1 \in Q
  <2>1. k + 1 \in 0..n /\ k + 1 # 0 /\ (k + 1) - 1 = k /\ k + 1 \in 1..n
    BY <1>1, <1>9
  <2>2. of[k + 1] = At(of, k + 1)
    BY <1>6, <2>1, Zenon DEF Steps
  <2>3. of[k + 1] = IF text[k + 1] = Blank THEN of[k] ELSE Append(of[k], text[k + 1])
    BY <2>1, <2>2
  <2>4. text[k + 1] # Blank => text[k + 1] \in Words
    BY <2>1 DEF Symbols, n
  <2>5. of[k] \in Seq(Words)
    BY <1>9
  <2>6. of[k + 1] \in Seq(Words)
    BY <2>3, <2>4, <2>5
  <2> QED BY <2>1, <2>6
<1> HIDE DEF Q
<1>10. n \in Q
  BY <1>1, <1>8, <1>9, UpTo
<1> QED BY <1>7, <1>10 DEF Q

------------------------------------------------------------------------------
(* The parser, for every line of words.                                      *)

Parsed(line) == IF ParsePreDispatch(line) THEN Run(line) ELSE ParseCommand(line)

(* Sequences of up to two elements, by their length and elements.            *)
LEMMA ShortSeqs ==
  ASSUME NEW s \in Seq(Words)
  PROVE  /\ s = <<>> <=> Len(s) = 0
         /\ \A a : s = <<a>> <=> Len(s) = 1 /\ s[1] = a
         /\ \A a, b : s = <<a, b>> <=> Len(s) = 2 /\ s[1] = a /\ s[2] = b
OBVIOUS

(* Sequences of one and of two.                                              *)
LEMMA ShortLens ==
  /\ Len(<<>>) = 0 /\ \A a : Len(<<a>>) = 1 /\ <<a>>[1] = a
  /\ \A a, b : Len(<<a, b>>) = 2 /\ <<a, b>>[1] = a /\ <<a, b>>[2] = b
OBVIOUS

(* The argument lists of two words.                                          *)
Pairs(A, B) == {<<a, b>> : a \in A, b \in B}

(* They are the sequences of length two with elements of either set.         *)
LEMMA PairsHave ==
  ASSUME NEW A, NEW B
  PROVE  /\ \A s \in Seq(Words) : s \in Pairs(A, B) <=> Len(s) = 2 /\ s[1] \in A /\ s[2] \in B
         /\ \A s \in Pairs(A, B) : Len(s) = 2
         /\ \A a \in A, b \in B : <<a, b>> \in Pairs(A, B)
<1>1. ASSUME NEW s \in Pairs(A, B) PROVE \E a \in A, b \in B : s = <<a, b>>
  BY DEF Pairs
<1>2. ASSUME NEW a \in A, NEW b \in B PROVE <<a, b>> \in Pairs(A, B)
  BY DEF Pairs
<1>3. ASSUME NEW s \in Pairs(A, B) PROVE Len(s) = 2 /\ s[1] \in A /\ s[2] \in B
  <2>1. PICK a \in A, b \in B : s = <<a, b>>
    BY <1>1
  <2>2. Len(<<a, b>>) = 2 /\ <<a, b>>[1] = a /\ <<a, b>>[2] = b
    BY ShortLens, Zenon
  <2> QED BY <2>1, <2>2
<1>4. ASSUME NEW s \in Seq(Words), Len(s) = 2, s[1] \in A, s[2] \in B PROVE s \in Pairs(A, B)
  <2>1. s = <<s[1], s[2]>>
    BY <1>4, ShortSeqs, Zenon
  <2> QED BY <1>2, <1>4, <2>1, Zenon
<1> QED BY <1>2, <1>3, <1>4, Zenon

(* Comparisons with the numbers of arguments.                                *)
LEMMA Counting ==
  ASSUME NEW n \in Nat
  PROVE  /\ n > 0 <=> n # 0
         /\ n < 1 <=> n = 0
         /\ n > 1 <=> n # 0 /\ n # 1
         /\ n < 2 <=> n = 0 \/ n = 1
         /\ ~(n < 0) /\ 0 # 1 /\ 0 # 2 /\ 1 # 2
OBVIOUS

(* The answers the table allows to a command with these forms.               *)
Answers(forms, args, line) ==
  IF args \in forms THEN {Run(line)}
  ELSE IF \E f \in forms : Len(args) < Len(f) /\ \A i \in DOMAIN args : args[i] = f[i]
    THEN {Fail("MissingArgs")}
  ELSE IF \E f \in forms : Len(args) < Len(f) THEN {Fail("MissingArgs"), Fail("InvalidArgs")}
  ELSE {Fail("InvalidArgs")}

(* They are those of Documented, for the commands of the parser.             *)
LEMMA DocumentedAnswers ==
  ASSUME NEW line, line[1] \in Heads \ PreDispatch
  PROVE  Documented(line) = Answers(Table[line[1]], Tail(line), line)
<1>1. line[1] # "provision-ota-key"
  BY DEF PreDispatch
<1> QED BY <1>1, Zenon DEF Documented, Answers

(* Three ways to a documented answer.                                        *)
LEMMA AnswersOf ==
  ASSUME NEW forms, NEW args, NEW line
  PROVE  /\ args \in forms => Run(line) \in Answers(forms, args, line)
         /\ args \notin forms /\ (\A f \in forms : ~(Len(args) < Len(f)))
              => Fail("InvalidArgs") \in Answers(forms, args, line)
         /\ args \notin forms /\ (\E f \in forms : Len(args) < Len(f))
              => Fail("MissingArgs") \in Answers(forms, args, line)
BY Zenon DEF Answers

(* keys: the first key that is missing or malformed decides.                 *)
LEMMA ParsesKeys ==
  ASSUME NEW line \in Seq(Words), line # <<>>, line[1] = "keys"
  PROVE  ParseKeys(line, Tail(line)) \in Documented(line)
<1> DEFINE args == Tail(line)
           bad == {i \in 1..KeyArgs : i > Len(args) \/ ~IsHex(args[i])}
           first == CHOOSE i \in bad : \A j \in bad : i <= j
           forms == [1..KeyArgs -> {"hex"}]
<1>1. args \in Seq(Words) /\ Len(args) \in Nat /\ DOMAIN args = 1..Len(args)
  OBVIOUS
<1>2. KeyArgs \in Nat
  BY ConsoleAssumption
<1>3. \A f \in forms : Len(f) = KeyArgs /\ DOMAIN f = 1..KeyArgs /\ \A i \in 1..KeyArgs : f[i] = "hex"
  BY <1>2
<1>m. Len(args) \in Nat
  BY <1>1
<1>s. SUFFICES ParseKeys(line, args) \in Documented(line)
  OBVIOUS
<1> HIDE DEF args
<1>4. "keys" \in Heads /\ "keys" \notin PreDispatch /\ Table["keys"] = forms
  BY DEF Heads, PreDispatch, Table
<1>5. Documented(line) = Answers(forms, args, line)
  BY <1>4, DocumentedAnswers, Zenon DEF args
<1>6. ParseKeys(line, args) =
        IF bad = {} THEN Then(args, KeyArgs, line)
        ELSE Fail(IF first > Len(args) THEN "MissingArgs" ELSE "InvalidArgs")
  BY DEF ParseKeys
<1> DEFINE full == [i \in 1..KeyArgs |-> "hex"]
<1>7. full \in forms
  OBVIOUS
<1>8. /\ args \in forms => Len(args) = KeyArgs /\ \A i \in 1..Len(args) : args[i] = "hex"
      /\ Len(args) = KeyArgs /\ (\A i \in 1..KeyArgs : args[i] = "hex") => args \in forms
  <2>1. args \in [1..Len(args) -> Words]
    BY <1>1, SeqIsFunction, Zenon
  <2>2. Len(args) = KeyArgs /\ (\A i \in 1..KeyArgs : args[i] = "hex") => args \in forms
    BY <2>1, Zenon
  <2>3. args \in forms => Len(args) = KeyArgs /\ \A i \in 1..Len(args) : args[i] = "hex"
    BY <1>3, Zenon
  <2> QED BY <2>2, <2>3
<1> HIDE DEF forms, full
<1>b. \A i : i \in bad <=> i \in 1..KeyArgs /\ (i > Len(args) \/ args[i] # "hex")
  BY DEF IsHex
<1> HIDE DEF bad
<1>9. CASE bad = {}
  <2>0. \A i \in 1..KeyArgs : i <= Len(args) /\ args[i] = "hex"
    BY <1>1, <1>2, <1>9, <1>b
  <2>1. Len(args) >= KeyArgs /\ \A i \in 1..KeyArgs : args[i] = "hex"
    BY <1>1, <1>2, <2>0
  <2>2. CASE Len(args) = KeyArgs
    <3>1. args \in forms /\ ~(Len(args) > KeyArgs)
      BY <1>2, <1>8, <2>1, <2>2
    <3> QED BY <1>5, <1>6, <1>9, <3>1, Zenon DEF Then, Answers
  <2>3. CASE Len(args) > KeyArgs
    <3>1. args \notin forms /\ ~\E f \in forms : Len(args) < Len(f)
      <4>1. Len(args) # KeyArgs /\ ~(Len(args) < KeyArgs)
        BY <1>2, <1>m, <2>3
      <4> QED BY <1>3, <1>8, <4>1, Zenon
    <3> QED BY <1>5, <1>6, <1>9, <2>3, <3>1, Zenon DEF Then, Answers
  <2> QED BY <1>2, <1>m, <2>1, <2>2, <2>3
<1>10. CASE bad # {}
  <2>1. bad \in SUBSET Nat
    BY <1>2, <1>b
  <2>2. \E i \in bad : \A j \in bad : i <= j
    BY <1>10, <2>1, Least, Zenon
  <2>3. first \in bad /\ \A j \in bad : first <= j
    BY <2>2, Zenon
  <2> HIDE DEF first
  <2>4. first \in 1..KeyArgs /\ (first > Len(args) \/ args[first] # "hex")
    BY <1>b, <2>3, Zenon
  <2>5. CASE first > Len(args)
    <3>1. \A i \in 1..Len(args) : args[i] = "hex"
      BY <1>1, <1>2, <1>b, <2>3, <2>4, <2>5
    <3>2. Len(args) < KeyArgs
      BY <1>1, <1>2, <2>4, <2>5
    <3>3. args \notin forms
      <4>1. Len(args) # KeyArgs
        BY <1>2, <1>m, <3>2
      <4> QED BY <1>8, <4>1, Zenon
    <3>4. Len(args) < Len(full) /\ \A i \in DOMAIN args : args[i] = full[i]
      BY <1>1, <1>2, <1>3, <1>7, <3>1, <3>2
    <3> QED BY <1>5, <1>6, <1>7, <1>10, <2>5, <3>3, <3>4, Zenon DEF Answers
  <2>6. CASE ~(first > Len(args))
    <3>1. first \in 1..Len(args) /\ args[first] # "hex"
      BY <1>1, <1>2, <2>4, <2>6
    <3>2. args \notin forms
      BY <1>8, <3>1
    <3>3. ~\E f \in forms : Len(args) < Len(f) /\ \A i \in DOMAIN args : args[i] = f[i]
      BY <1>1, <1>3, <2>4, <3>1
    <3> QED BY <1>5, <1>6, <1>10, <2>6, <3>2, <3>3, Zenon DEF Answers
  <2> QED BY <2>5, <2>6
<1> QED BY <1>9, <1>10

(* The forms of the other commands.                                          *)
LEMMA ShortForms ==
  /\ Table["plain"] = {<<>>} /\ Table["issuer"] = {<<>>, <<"hex">>}
  /\ Table["button-mode"] = {<<>>, <<"legacy">>}
  /\ \A h \in {"url", "token"} : Table[h] = {<<a>> : a \in Words \ {"long"}}
  /\ Table["wifi"] = Pairs(Words \ {"long", "off"}, Words \ {"long"})
                     \cup {<<"off">>}
  /\ Table["ota"] = Pairs(Words \ {"long"}, Words \ {"long"})
  /\ Table["crashlog"] = {<<>>} /\ Table["force"] = {<<>>, <<"on">>, <<"off">>}
  /\ Table["provision-ota-key"] = {}
<1>1. Fitting \cup Heads = Words \ {"long"} /\ (Fitting \cup Heads) \ {"off"} = Words \ {"long", "off"}
  BY DEF Fitting, Heads, Words, Args, PreDispatch
<1> QED BY <1>1 DEF Table, Heads, PreDispatch, Pairs

(* plain, issuer, button-mode: at most one argument, which may be left out.  *)
LEMMA ParsesOptional ==
  ASSUME NEW line \in Seq(Words), line # <<>>, line[1] \in {"plain", "issuer", "button-mode"}
  PROVE  ParseCommand(line) \in Documented(line)
<1> DEFINE args == Tail(line)
           forms == Table[line[1]]
<1>1. args \in Seq(Words)
  OBVIOUS
<1>m. /\ Len(args) > 0 <=> Len(args) # 0
      /\ Len(args) < 1 <=> Len(args) = 0
      /\ Len(args) > 1 <=> Len(args) # 0 /\ Len(args) # 1
      /\ Len(args) < 2 <=> Len(args) = 0 \/ Len(args) = 1
      /\ ~(Len(args) < 0) /\ 0 # 1 /\ 0 # 2 /\ 1 # 2
  BY <1>1, Counting, SeqIsFunction, Zenon
<1>2. Documented(line) = Answers(forms, args, line)
  BY DocumentedAnswers DEF Heads, PreDispatch
<1>3. /\ args = <<>> <=> Len(args) = 0
      /\ \A a : args = <<a>> <=> Len(args) = 1 /\ args[1] = a
  BY <1>1, ShortSeqs, Zenon
<1>5. line[1] = "plain" => forms = {<<>>} /\ ParseCommand(line) = Then(args, 0, line)
  BY ShortForms DEF ParseCommand
<1>6. line[1] = "issuer" =>
        forms = {<<>>, <<"hex">>} /\ ParseCommand(line) = ParseOptional(line, args, {"hex"})
  BY ShortForms DEF ParseCommand
<1>7. line[1] = "button-mode" =>
        forms = {<<>>, <<"legacy">>} /\ ParseCommand(line) = ParseOptional(line, args, {"legacy"})
  BY ShortForms DEF ParseCommand
<1> HIDE DEF args, forms
<1>4. \A f \in forms : Len(f) = 0 \/ Len(f) = 1
  BY <1>5, <1>6, <1>7, ShortLens, Zenon
<1>8. ASSUME args # <<>> PROVE \A f \in forms : ~(Len(args) < Len(f))
  <2>1. Len(args) # 0
    BY <1>3, <1>8, Zenon
  <2>2. ~(Len(args) < 0) /\ ~(Len(args) < 1)
    BY <1>m, <2>1, Zenon
  <2> QED BY <1>4, <2>2, Zenon
<1>9. CASE args = <<>>
  <2>1. ParseCommand(line) = Run(line) /\ args \in forms
    BY <1>3, <1>5, <1>6, <1>7, <1>9 DEF Then, ParseOptional
  <2> QED BY <1>2, <2>1, AnswersOf
<1>10. CASE args # <<>>
  <2>1. ASSUME NEW good, forms = {<<>>, <<good>>},
               ParseCommand(line) = ParseOptional(line, args, {good})
        PROVE  ParseCommand(line) \in Documented(line)
    <3>1. CASE Len(args) = 1 /\ args[1] = good
      <4>1. ParseCommand(line) = Run(line) /\ args \in forms
        BY <1>3, <1>10, <2>1, <3>1 DEF ParseOptional, Then
      <4> QED BY <1>2, <4>1, AnswersOf
    <3>2. CASE ~(Len(args) = 1 /\ args[1] = good)
      <4>1. args \notin forms
        BY <1>3, <1>10, <2>1, <3>2, Zenon
      <4>2. args[1] = good => Len(args) > 1
        BY <1>3, <1>10, <1>m, <3>2, Zenon
      <4>3. ParseCommand(line) = Fail("InvalidArgs")
        BY <1>10, <2>1, <4>2 DEF ParseOptional, Then
      <4> QED BY <1>2, <1>8, <1>10, <4>1, <4>3, AnswersOf, Zenon
    <3> QED BY <3>1, <3>2
  <2>2. CASE line[1] = "plain"
    <3>1. ParseCommand(line) = Fail("InvalidArgs") /\ args \notin forms
      BY <1>3, <1>5, <1>10, <1>m, <2>2, Zenon DEF Then
    <3> QED BY <1>2, <1>8, <1>10, <3>1, AnswersOf, Zenon
  <2> QED BY <1>6, <1>7, <2>1, <2>2, Zenon
<1> QED BY <1>9, <1>10

(* url, token: one argument.                                                 *)
LEMMA ParsesOne ==
  ASSUME NEW line \in Seq(Words), line # <<>>, line[1] \in {"url", "token"}
  PROVE  ParseCommand(line) \in Documented(line)
<1> DEFINE args == Tail(line)
           forms == {<<a>> : a \in Words \ {"long"}}
<1>1. args \in Seq(Words)
  OBVIOUS
<1>m. /\ Len(args) > 0 <=> Len(args) # 0
      /\ Len(args) < 1 <=> Len(args) = 0
      /\ Len(args) > 1 <=> Len(args) # 0 /\ Len(args) # 1
      /\ Len(args) < 2 <=> Len(args) = 0 \/ Len(args) = 1
      /\ ~(Len(args) < 0) /\ 0 # 1 /\ 0 # 2 /\ 1 # 2
  BY <1>1, Counting, SeqIsFunction, Zenon
<1>2. Documented(line) = Answers(forms, args, line)
  <2>1. line[1] \in Heads \ PreDispatch /\ Table[line[1]] = forms
    BY ShortForms DEF Heads, PreDispatch
  <2> QED BY <2>1, DocumentedAnswers, Zenon
<1>3. /\ args = <<>> <=> Len(args) = 0
      /\ \A a : args = <<a>> <=> Len(args) = 1 /\ args[1] = a
  BY <1>1, ShortSeqs, Zenon
<1>4. ParseCommand(line) = IF args = <<>> THEN Fail("MissingArgs")
                           ELSE IF Len(args) = 1 /\ Fits(args[1]) THEN Run(line)
                           ELSE Fail("InvalidArgs")
  <2>1. Len(args) > 1 => args # <<>> /\ Len(args) # 1
    BY <1>3, <1>m, Zenon
  <2>2. args # <<>> /\ ~(Len(args) > 1) => Len(args) = 1
    BY <1>3, <1>m, Zenon
  <2>3. ParseCommand(line) = IF line[1] = "url" THEN ParseUrl(line, args) ELSE ParseToken(line, args)
    BY DEF ParseCommand
  <2> HIDE DEF args
  <2> QED BY <2>1, <2>2, <2>3, Zenon DEF ParseUrl, ParseToken
<1>5. \A f \in forms : Len(f) = 1
  BY ShortLens
<1>6. <<"text">> \in forms
  BY DEF Words, Args
<1>7. args \in forms <=> Len(args) = 1 /\ Fits(args[1])
  <2>1. Len(args) = 1 => args[1] \in Words
    BY <1>1
  <2> QED BY <1>3, <2>1, Zenon DEF Fits
<1> HIDE DEF args, forms
<1>8. CASE args = <<>>
  <2>1. args \notin forms /\ \E f \in forms : Len(args) < Len(f)
    <3>1. Len(args) = 0 /\ Len(args) # 1 /\ Len(args) < 1
      BY <1>3, <1>8, <1>m, Zenon
    <3> QED BY <1>5, <1>6, <1>7, <3>1, Zenon
  <2> QED BY <1>2, <1>4, <1>8, <2>1, AnswersOf, Zenon
<1>9. CASE args # <<>> /\ args \in forms
  BY <1>2, <1>4, <1>7, <1>9, AnswersOf, Zenon
<1>10. CASE args # <<>> /\ args \notin forms
  <2>1. \A f \in forms : ~(Len(args) < Len(f))
    <3>1. ~(Len(args) < 1)
      BY <1>3, <1>10, <1>m, Zenon
    <3> QED BY <1>5, <3>1, Zenon
  <2> QED BY <1>2, <1>4, <1>7, <1>10, <2>1, AnswersOf, Zenon
<1> QED BY <1>8, <1>9, <1>10

(* wifi, ota: two arguments, or `off`.                                       *)
LEMMA ParsesTwo ==
  ASSUME NEW line \in Seq(Words), line # <<>>, line[1] \in {"wifi", "ota"}
  PROVE  ParseCommand(line) \in Documented(line)
<1> DEFINE args == Tail(line)
           forms == Table[line[1]]
           off == line[1] = "wifi" /\ Len(args) > 0 /\ args[1] = "off"
           first == IF line[1] = "wifi" THEN Words \ {"long", "off"} ELSE Words \ {"long"}
           pairs == Pairs(first, Words \ {"long"})
<1>1. args \in Seq(Words)
  OBVIOUS
<1>m. /\ Len(args) > 0 <=> Len(args) # 0
      /\ Len(args) < 1 <=> Len(args) = 0
      /\ Len(args) > 1 <=> Len(args) # 0 /\ Len(args) # 1
      /\ Len(args) < 2 <=> Len(args) = 0 \/ Len(args) = 1
      /\ ~(Len(args) < 0) /\ 0 # 1 /\ 0 # 2 /\ 1 # 2
  BY <1>1, Counting, SeqIsFunction, Zenon
<1>2. Documented(line) = Answers(forms, args, line)
  BY DocumentedAnswers DEF Heads, PreDispatch
<1>3. /\ args = <<>> <=> Len(args) = 0
      /\ \A a : args = <<a>> <=> Len(args) = 1 /\ args[1] = a
  BY <1>1, ShortSeqs, Zenon
<1>4. ParseCommand(line) = IF off THEN Then(args, 1, line) ELSE ParseTwo(line, args)
  BY <1>1, <1>3 DEF ParseCommand, ParseWifi
<1>a. forms = pairs \cup IF line[1] = "wifi" THEN {<<"off">>} ELSE {}
  BY ShortForms, Zenon
<1>b. /\ \A s \in Seq(Words) : s \in pairs <=> Len(s) = 2 /\ s[1] \in first /\ s[2] \in Words \ {"long"}
      /\ \A s \in pairs : Len(s) = 2
      /\ \A a \in first, b \in Words \ {"long"} : <<a, b>> \in pairs
  <2> HIDE DEF first
  <2> QED BY PairsHave
<1>c. "text" \in Words \ {"long"} /\ "text" \in first
  BY DEF Words, Args
<1>d. \A w \in Words : w \in first <=> Fits(w) /\ ~(line[1] = "wifi" /\ w = "off")
  BY DEF Fits
<1> HIDE DEF args, forms, first, pairs
<1>5. \A f \in forms : Len(f) = 1 \/ Len(f) = 2
  BY <1>a, <1>b, ShortLens, Zenon
<1>6. <<"text", "text">> \in forms /\ Len(<<"text", "text">>) = 2
  BY <1>a, <1>b, <1>c, ShortLens, Zenon
<1>7. args \in forms <=>
        IF off THEN Len(args) = 1 ELSE Len(args) = 2 /\ Fits(args[1]) /\ Fits(args[2])
  <2>1. /\ Len(args) = 1 => args[1] \in Words
        /\ Len(args) = 2 => args[1] \in Words /\ args[2] \in Words
    BY <1>1
  <2>2. args \in pairs <=> /\ Len(args) = 2 /\ Fits(args[1]) /\ Fits(args[2])
                           /\ ~(line[1] = "wifi" /\ args[1] = "off")
    BY <1>1, <1>b, <1>d, <2>1, Zenon DEF Fits
  <2>3. args = <<"off">> <=> Len(args) = 1 /\ args[1] = "off"
    BY <1>3, Zenon
  <2> QED BY <1>a, <1>m, <2>2, <2>3, Zenon
<1>8. CASE args \in forms
  <2>1. ParseCommand(line) = Run(line)
    <3>1. /\ Len(args) = 1 => ~(Len(args) > 1)
          /\ Len(args) = 2 => ~(Len(args) < 2)
      BY <1>m, Zenon
    <3> QED BY <1>4, <1>7, <1>8, <3>1, Zenon DEF Then, ParseTwo
  <2> QED BY <1>2, <1>8, <2>1, AnswersOf, Zenon
<1>9. CASE args \notin forms /\ (Len(args) < 2 /\ ~off)
  <2>1. ParseCommand(line) = Fail("MissingArgs")
    BY <1>4, <1>9, Zenon DEF ParseTwo
  <2>2. \E f \in forms : Len(args) < Len(f)
    BY <1>6, <1>9, Zenon
  <2> QED BY <1>2, <1>9, <2>1, <2>2, AnswersOf, Zenon
<1>10. CASE args \notin forms /\ ~(Len(args) < 2 /\ ~off)
  <2>1. ~(Len(args) < 2)
    BY <1>7, <1>10, <1>m, Zenon
  <2>2. ParseCommand(line) = Fail("InvalidArgs")
    <3>1. Len(args) > 1
      BY <1>m, <2>1, Zenon
    <3> QED BY <1>4, <1>7, <1>10, <2>1, <3>1, Zenon DEF ParseTwo, Then
  <2>3. \A f \in forms : ~(Len(args) < Len(f))
    <3>1. ~(Len(args) < 1) /\ ~(Len(args) < 2)
      BY <1>m, <2>1, Zenon
    <3> QED BY <1>5, <3>1, Zenon
  <2> QED BY <1>2, <1>10, <2>2, <2>3, AnswersOf, Zenon
<1> QED BY <1>8, <1>9, <1>10, Zenon

(* The words the main loop takes for itself.                                 *)
LEMMA ParsesPreDispatch ==
  ASSUME NEW line \in Seq(Words), line # <<>>, line[1] \in PreDispatch
  PROVE  Parsed(line) \in Documented(line)
<1> DEFINE args == Tail(line)
           own == \/ line[1] = "crashlog" /\ args = <<>>
                  \/ line[1] = "provision-ota-key" /\ args # <<>>
                  \/ line[1] = "force" /\ args \in {<<>>, <<"on">>, <<"off">>}
<1>1. /\ args \in Seq(Words)
      /\ Len(line) = 1 <=> args = <<>>
      /\ Len(line) > 1 <=> args # <<>>
  <2>1. args \in Seq(Words) /\ Len(line) \in Nat /\ Len(args) = Len(line) - 1 /\ Len(line) # 0
    OBVIOUS
  <2>2. \A n \in Nat : n # 0 => (n = 1 <=> n - 1 = 0) /\ (n > 1 <=> n - 1 # 0)
    OBVIOUS
  <2>3. args = <<>> <=> Len(args) = 0
    BY <2>1, ShortSeqs, Zenon
  <2> HIDE DEF args
  <2> QED BY <2>1, <2>2, <2>3, Zenon
<1>2. ParsePreDispatch(line) <=> own
  BY <1>1, Zenon DEF ParsePreDispatch
<1>3. ParseCommand(line) = Fail("UnknownCommand")
  BY DEF ParseCommand, PreDispatch
<1>4. /\ Table["crashlog"] = {<<>>}
      /\ Table["force"] = {<<>>, <<"on">>, <<"off">>}
      /\ Table["provision-ota-key"] = {}
  BY DEF Table, Heads, PreDispatch
<1>5. line[1] \in Heads /\ line[1] \in {"crashlog", "force", "provision-ota-key"}
  BY DEF Heads, PreDispatch
<1>6. own <=> args \in Table[line[1]] \/ (line[1] = "provision-ota-key" /\ args # <<>>)
  <2>1. /\ "crashlog" # "force" /\ "crashlog" # "provision-ota-key"
        /\ "force" # "provision-ota-key"
    OBVIOUS
  <2> HIDE DEF args
  <2> QED BY <1>4, <1>5, <2>1, Zenon
<1>7. Documented(line) = IF own THEN {Run(line)} ELSE {Fail("UnknownCommand")}
  <2> HIDE DEF own
  <2> QED BY <1>5, <1>6, Zenon DEF Documented
<1> HIDE DEF own
<1> QED BY <1>2, <1>3, <1>7, Zenon DEF Parsed

(* Every line of words is answered as the table of the protocol allows.      *)
LEMMA ParsesAsDocumented ==
  ASSUME NEW line \in Seq(Words), line # <<>>
  PROVE  Parsed(line) \in Documented(line)
<1>1. line[1] \notin PreDispatch => Parsed(line) = ParseCommand(line)
  <2>1. "crashlog" \in PreDispatch /\ "force" \in PreDispatch /\ "provision-ota-key" \in PreDispatch
    BY DEF PreDispatch
  <2> QED BY <2>1, Zenon DEF Parsed, ParsePreDispatch
<1>2. CASE line[1] \in PreDispatch
  BY <1>2, ParsesPreDispatch, Zenon
<1>3. CASE line[1] \notin Heads
  <2>1. Documented(line) = {Fail("UnknownCommand")} /\ line[1] \notin PreDispatch
    BY <1>3, Zenon DEF Documented, Heads
  <2>2. ParseCommand(line) = Fail("UnknownCommand")
    BY <1>3 DEF ParseCommand, Heads
  <2> QED BY <1>1, <2>1, <2>2, Zenon
<1>4. CASE line[1] = "keys"
  <2>1. ParseCommand(line) = ParseKeys(line, Tail(line)) /\ line[1] \notin PreDispatch
    BY <1>4 DEF ParseCommand, PreDispatch
  <2> QED BY <1>1, <1>4, <2>1, ParsesKeys, Zenon
<1>5. CASE line[1] \in {"plain", "issuer", "button-mode"}
  <2>1. line[1] \notin PreDispatch
    BY <1>5 DEF PreDispatch
  <2> QED BY <1>1, <1>5, <2>1, ParsesOptional, Zenon
<1>6. CASE line[1] \in {"url", "token"}
  <2>1. line[1] \notin PreDispatch
    BY <1>6 DEF PreDispatch
  <2> QED BY <1>1, <1>6, <2>1, ParsesOne, Zenon
<1>7. CASE line[1] \in {"wifi", "ota"}
  <2>1. line[1] \notin PreDispatch
    BY <1>7 DEF PreDispatch
  <2> QED BY <1>1, <1>7, <2>1, ParsesTwo, Zenon
<1> QED BY <1>2, <1>3, <1>4, <1>5, <1>6, <1>7, Zenon DEF Heads

------------------------------------------------------------------------------
(* From bytes to lines.                                                      *)

(* A line takes a byte for each symbol at least.                             *)
LEMMA Widths ==
  ASSUME NEW s \in Seq(Symbols)
  PROVE  Width(s) \in Nat /\ Width(s) >= Len(s) /\ (s = <<>> => Width(s) = 0)
<1> DEFINE wide == {i \in DOMAIN s : s[i] = "uber"}
<1>1. Len(s) \in Nat /\ DOMAIN s = 1..Len(s)
  OBVIOUS
<1>2. IsFiniteSet(1..Len(s))
  BY <1>1, FS_Interval
<1>3. wide \in SUBSET (1..Len(s))
  BY <1>1
<1>4. IsFiniteSet(wide)
  BY <1>2, <1>3, FS_Subset, Zenon
<1>5. Cardinality(wide) \in Nat
  BY <1>4, FS_CardinalityType, Zenon
<1>6. s = <<>> => Cardinality(wide) = 0
  <2>1. s = <<>> => wide = {}
    OBVIOUS
  <2> QED BY <2>1, FS_EmptySet, Zenon
<1>7. Width(s) = Len(s) + Cardinality(wide)
  BY Zenon DEF Width
<1>8. s = <<>> => Len(s) = 0
  OBVIOUS
<1> HIDE DEF wide
<1> QED BY <1>1, <1>5, <1>6, <1>7, <1>8

(* What the history of the line being sent tells of the assembler: it holds  *)
(* that line, as long as it fits, and discards it from the first excess      *)
(* symbol on, reported once; what was answered last is what the parser makes *)
(* of the line that has just ended.                                          *)
ConsoleInv ==
  /\ typed \in Seq(Symbols) /\ sent \in Seq(Symbols) /\ faults \in Nat
  /\ assembler \in [line : Seq(Symbols), discarding : BOOLEAN, done : BOOLEAN]
  /\ ~Overlong(assembler.line)
  /\ answer.kind \in {"nothing", "fail", "run"}
  /\ IF assembler.discarding THEN typed = Excess /\ Begun = <<>>
                             ELSE ~Overlong(typed) /\ Begun = typed
  /\ IF sent = <<>> \/ Overlong(sent) THEN answer.kind # "run" ELSE answer = Dispatch(sent)
  /\ OverlongFailsOnce

(* A line that has ended is parsed as the table of the protocol allows.      *)
LEMMA DispatchesAsDocumented ==
  ASSUME NEW text \in Seq(Symbols)
  PROVE  /\ WordsOf(text) = <<>> => Dispatch(text) = Fail("UnknownCommand")
         /\ WordsOf(text) # <<>> => Dispatch(text) \in Documented(WordsOf(text))
         /\ Dispatch(text).kind \in {"fail", "run"}
<1> DEFINE line == WordsOf(text)
<1>1. line \in Seq(Words)
  BY WordsOfLine
<1>2. Dispatch(text) = Parsed(line)
  BY Zenon DEF Dispatch, Parsed
<1> HIDE DEF line
<1>3. line = <<>> => Parsed(line) = Fail("UnknownCommand")
  BY Zenon DEF Parsed, ParsePreDispatch, ParseCommand
<1>4. line # <<>> => Parsed(line) \in Documented(line)
  BY <1>1, ParsesAsDocumented, Zenon
<1>5. \A a \in Documented(line) : a = Run(line) \/ \E err : a = Fail(err)
  BY Zenon DEF Documented
<1>6. Run(line).kind = "run" /\ \A err : Fail(err).kind = "fail"
  BY DEF Run, Fail
<1>7. Parsed(line).kind \in {"fail", "run"}
  BY <1>3, <1>4, <1>5, <1>6, Zenon
<1> QED BY <1>2, <1>3, <1>4, <1>7, Zenon DEF line

(* A line that is too long stays so.                                         *)
LEMMA ExcessIsOverlong ==
  /\ Excess \in Seq(Symbols) /\ Excess # <<>> /\ Overlong(Excess) /\ ~Overlong(<<>>)
  /\ \A b \in Symbols : Append(Excess, b) \in Seq(Symbols) /\ Overlong(Append(Excess, b))
<1>1. MAX_LINE_LEN \in Nat
  BY ConsoleAssumption
<1>2. Excess \in Seq(Symbols) /\ Len(Excess) = MAX_LINE_LEN + 1
  BY <1>1 DEF Excess, Symbols
<1>3. Excess # <<>>
  BY <1>1, <1>2
<1>4. Overlong(Excess)
  BY <1>1, <1>2, Widths DEF Overlong
<1>5. ~Overlong(<<>>)
  <2>1. <<>> \in Seq(Symbols)
    OBVIOUS
  <2>2. Width(<<>>) = 0
    BY <2>1, Widths, Zenon
  <2> QED BY <1>1, <2>2 DEF Overlong
<1>6. ASSUME NEW b \in Symbols
      PROVE  Append(Excess, b) \in Seq(Symbols) /\ Overlong(Append(Excess, b))
  <2>1. Append(Excess, b) \in Seq(Symbols) /\ Len(Append(Excess, b)) = MAX_LINE_LEN + 2
    BY <1>1, <1>2
  <2> DEFINE s == Append(Excess, b)
  <2>2. Width(s) \in Nat /\ Width(s) >= Len(s) /\ Len(s) = MAX_LINE_LEN + 2
    BY <2>1, Widths, Zenon
  <2> HIDE DEF s
  <2>3. Width(s) > MAX_LINE_LEN
    BY <1>1, <2>2
  <2> QED BY <2>1, <2>3 DEF Overlong, s
<1> QED BY <1>2, <1>3, <1>4, <1>5, <1>6

(* The fields of an assembler.                                               *)
LEMMA Assembled ==
  ASSUME NEW l \in Seq(Symbols), NEW d \in BOOLEAN, NEW e \in BOOLEAN
  PROVE  LET a == [line |-> l, discarding |-> d, done |-> e]
         IN /\ a \in [line : Seq(Symbols), discarding : BOOLEAN, done : BOOLEAN]
            /\ a.line = l /\ a.discarding = d /\ a.done = e
OBVIOUS

(* A byte is received.                                                       *)
LEMMA ReceiveKeeps ==
  ASSUME ConsoleInv, NEW b \in Bytes, Receive(b)
  PROVE  ConsoleInv'
<1> USE DEF ConsoleInv
<1>1. /\ Begun \in Seq(Symbols) /\ ~Overlong(Begun)
      /\ <<>> \in Seq(Symbols)
      /\ Nothing.kind = "nothing" /\ \A err : Fail(err).kind = "fail" /\ Nothing # Fail(err)
  BY ExcessIsOverlong DEF Begun, Nothing, Fail
<1>2. /\ "\r" # "\n"
      /\ b \notin {"\r", "\n"} <=> b \in Symbols
  BY Zenon DEF Bytes, Symbols, Words, Heads, PreDispatch, Args, Blank
<1>3. CASE b = "\r"
  <2>1. /\ assembler' = [line |-> Begun, discarding |-> assembler.discarding, done |-> FALSE]
        /\ answer' = Nothing /\ typed' = typed /\ sent' = <<>>
        /\ faults' = (IF typed = <<>> THEN 0 ELSE faults) + 0
    BY <1>1, <1>2, <1>3, Zenon DEF Receive, Feed, Set
  <2>2. Begun' = Begun
    BY <2>1 DEF Begun
  <2>3. faults' \in Nat /\ OverlongFailsOnce'
    BY <2>1 DEF OverlongFailsOnce, Overlong, Width
  <2> QED BY <1>1, <2>1, <2>2, <2>3 DEF Overlong, Width, Excess
<1>4. CASE b = "\n"
  <2>1. typed' = <<>> /\ sent' = typed
    BY <1>2, <1>4, Zenon DEF Receive
  <2>2. EndOfLine
    BY <1>2, <1>4, Zenon DEF Receive, Feed
  <2>3. assembler' \in [line : Seq(Symbols), discarding : BOOLEAN, done : BOOLEAN]
    <3>1. assembler' = [line |-> Begun, discarding |-> FALSE, done |-> FALSE]
            \/ assembler' = [line |-> Begun, discarding |-> FALSE, done |-> TRUE]
      BY <2>2, Zenon DEF EndOfLine, Set
    <3>2. Begun \in Seq(Symbols)
      BY <1>1
    <3> QED BY <3>1, <3>2, Assembled, Zenon
  <2>4. /\ ~assembler'.discarding /\ Begun' = <<>>
        /\ assembler'.line = Begun
    BY <1>1, <2>2 DEF EndOfLine, Set, Begun
  <2>5. faults' \in Nat
    <3>1. faults' = (IF typed = <<>> THEN 0 ELSE faults)
                    + IF answer' = Fail("too long") THEN 1 ELSE 0
      BY Zenon DEF Receive
    <3>2. faults \in Nat
      OBVIOUS
    <3> HIDE DEF ConsoleInv
    <3>3. faults' \in {0 + 0, 0 + 1, faults + 0, faults + 1}
      BY <3>1, Zenon
    <3> QED BY <3>2, <3>3
  <2>6. IF typed = <<>> \/ Overlong(typed) THEN answer'.kind # "run" ELSE answer' = Dispatch(typed)
    BY <1>1, <2>2, ExcessIsOverlong, Zenon DEF EndOfLine
  <2>7. answer'.kind \in {"nothing", "fail", "run"}
    BY <1>1, <2>2, DispatchesAsDocumented, Zenon DEF EndOfLine
  <2>8. OverlongFailsOnce'
    BY <2>1 DEF OverlongFailsOnce
  <2>9. ~Overlong(assembler.line)' /\ ~Overlong(typed)'
    BY <1>1, <2>1, <2>4, ExcessIsOverlong DEF Overlong, Width
  <2>10. IF sent' = <<>> \/ Overlong(sent') THEN answer'.kind # "run" ELSE answer' = Dispatch(sent')
    BY <2>1, <2>6, Zenon
  <2> QED BY <1>1, <2>1, <2>3, <2>4, <2>5, <2>7, <2>8, <2>9, <2>10, Zenon
<1>5. CASE b \in Symbols
  <2>1. Push(b) /\ sent' = <<>>
    BY <1>2, <1>5, Zenon DEF Receive, Feed
  <2>2. /\ typed' = IF Overlong(Append(typed, b)) THEN Excess ELSE Append(typed, b)
        /\ faults' = (IF typed = <<>> THEN 0 ELSE faults)
                     + IF answer' = Fail("too long") THEN 1 ELSE 0
    BY <1>2, <1>5, Zenon DEF Receive
  <2>3. Append(typed, b) \in Seq(Symbols) /\ Append(Begun, b) \in Seq(Symbols)
    BY <1>1, <1>5
  <2>4. CASE assembler.discarding
    <3>1. assembler' = [line |-> <<>>, discarding |-> TRUE, done |-> FALSE] /\ answer' = Nothing
      BY <2>1, <2>4, Zenon DEF Push, Set
    <3>2. typed' = typed /\ typed # <<>> /\ Overlong(typed) /\ typed = Excess
      BY <1>5, <2>2, <2>4, ExcessIsOverlong, Zenon
    <3>3. faults' = faults + 0
      BY <1>1, <2>2, <3>1, <3>2, Zenon
    <3>4. faults' = faults
      BY <3>3
    <3>5. OverlongFailsOnce'
      BY <3>2, <3>4 DEF OverlongFailsOnce, Overlong, Width
    <3>6. /\ assembler' \in [line : Seq(Symbols), discarding : BOOLEAN, done : BOOLEAN]
          /\ assembler'.line = <<>> /\ assembler'.discarding
      BY <1>1, <3>1, Assembled, Zenon
    <3>7. Begun' = <<>> /\ Excess' = Excess /\ ~Overlong(assembler.line)'
      BY <3>6, ExcessIsOverlong DEF Begun, Excess, Overlong, Width
    <3>8. typed' \in Seq(Symbols) /\ sent' = <<>> /\ faults' \in Nat /\ answer'.kind = "nothing"
      BY <1>1, <2>1, <3>1, <3>2, <3>4, Zenon
    <3> QED BY <1>1, <3>2, <3>5, <3>6, <3>7, <3>8, Zenon
  <2>5. CASE ~assembler.discarding /\ Overlong(Append(typed, b))
    <3>1. /\ assembler' = [line |-> <<>>, discarding |-> TRUE, done |-> FALSE]
          /\ answer' = Fail("too long")
      BY <2>1, <2>5, Zenon DEF Push, Set, Overlong
    <3>2. typed' = Excess /\ typed' # <<>> /\ Overlong(typed')
      BY <2>2, <2>5, ExcessIsOverlong, Zenon
    <3>3. typed # <<>> => faults = 0
      BY <2>5, Zenon DEF OverlongFailsOnce
    <3>4. faults' = 1
      <4>1. faults' = 0 + 1
        BY <2>2, <3>1, <3>3, Zenon
      <4> QED BY <4>1
    <3>5. OverlongFailsOnce'
      BY <3>2, <3>4 DEF OverlongFailsOnce, Overlong, Width
    <3>6. /\ assembler' \in [line : Seq(Symbols), discarding : BOOLEAN, done : BOOLEAN]
          /\ assembler'.line = <<>> /\ assembler'.discarding
      BY <1>1, <3>1, Assembled, Zenon
    <3>7. Begun' = <<>> /\ Excess' = Excess /\ ~Overlong(assembler.line)'
      BY <3>6, ExcessIsOverlong DEF Begun, Excess, Overlong, Width
    <3>8. typed' \in Seq(Symbols) /\ sent' = <<>> /\ faults' \in Nat /\ answer'.kind = "fail"
      BY <1>1, <2>1, <3>1, <3>2, <3>4, ExcessIsOverlong, Zenon
    <3> QED BY <1>1, <3>2, <3>5, <3>6, <3>7, <3>8, Zenon
  <2>6. CASE ~assembler.discarding /\ ~Overlong(Append(typed, b))
    <3>1. /\ assembler' = [line |-> Append(typed, b), discarding |-> FALSE, done |-> FALSE]
          /\ answer' = Nothing
      BY <2>1, <2>6, Zenon DEF Push, Set, Overlong
    <3>2. typed' = Append(typed, b)
      BY <2>2, <2>6, Zenon
    <3>3. typed # <<>> => faults = 0
      BY <2>6, Zenon DEF OverlongFailsOnce
    <3>4. faults' = 0
      <4>1. faults' = 0 + 0
        BY <1>1, <2>2, <3>1, <3>3, Zenon
      <4> QED BY <4>1
    <3>5. ~Overlong(typed')
      BY <2>6, <3>2
    <3>6. OverlongFailsOnce'
      BY <3>4, <3>5 DEF OverlongFailsOnce, Overlong, Width
    <3>7. /\ assembler' \in [line : Seq(Symbols), discarding : BOOLEAN, done : BOOLEAN]
          /\ assembler'.line = typed' /\ ~assembler'.discarding /\ ~assembler'.done
      BY <2>3, <3>1, <3>2, Assembled, Zenon
    <3>8. Begun' = typed' /\ ~Overlong(assembler.line)' /\ ~Overlong(typed)'
      BY <3>5, <3>7 DEF Begun, Overlong, Width
    <3>9. typed' \in Seq(Symbols) /\ sent' = <<>> /\ faults' \in Nat /\ answer'.kind = "nothing"
      BY <1>1, <2>1, <2>3, <3>1, <3>2, <3>4
    <3> QED BY <1>1, <3>6, <3>7, <3>8, <3>9, Zenon
  <2> QED BY <2>4, <2>5, <2>6
<1> QED BY <1>2, <1>3, <1>4, <1>5, Zenon

LEMMA ConsoleInvInit == ConsoleInit => ConsoleInv
BY ExcessIsOverlong DEF ConsoleInit, ConsoleInv, Begun, Nothing, OverlongFailsOnce

LEMMA ConsoleInvStep == ConsoleInv /\ [ConsoleNext]_console => ConsoleInv'
<1> SUFFICES ASSUME ConsoleInv, [ConsoleNext]_console PROVE ConsoleInv'
  OBVIOUS
<1>1. CASE ConsoleNext
  BY <1>1, ReceiveKeeps, Zenon DEF ConsoleNext
<1>2. CASE UNCHANGED console
  BY <1>2 DEF console, ConsoleInv, Begun, OverlongFailsOnce, Overlong, Width, Excess, Dispatch
<1> QED BY <1>1, <1>2

(* The inductive invariant of the console: what is typed is held whole until *)
(* it ends or exceeds the line.                                              *)
THEOREM ConsoleInvariant == ConsoleSpec => []ConsoleInv
BY ConsoleInvInit, ConsoleInvStep, PTL DEF ConsoleSpec

(* The line is never longer than its buffer.                                 *)
LEMMA ConsoleTypes == ConsoleInv => ConsoleTypeOK
<1> SUFFICES ASSUME ConsoleInv PROVE ConsoleTypeOK
  OBVIOUS
<1>1. Width(assembler.line) \in Nat /\ MAX_LINE_LEN \in Nat
  BY Widths, ConsoleAssumption DEF ConsoleInv
<1>2. Width(assembler.line) <= MAX_LINE_LEN
  BY <1>1 DEF ConsoleInv, Overlong
<1> QED BY <1>2, Zenon DEF ConsoleInv, ConsoleTypeOK, Symbols

(* The serial console obeys whole lines, each as its protocol table says,    *)
(* and reports an overlong one once: for lines of any length and any number  *)
(* of keys.                                                                  *)
THEOREM ObeysLines == ConsoleSpec => []LinesAreCommands
<1>1. ConsoleInv => LinesAreCommands
  BY DispatchesAsDocumented, Zenon DEF ConsoleInv, LinesAreCommands, ObeysWholeLines
<1> QED BY <1>1, ConsoleInvariant, PTL

------------------------------------------------------------------------------
(* The GATT server, callback by callback.                                     *)

(* A handle is known only after the one it was asked for with, ...           *)
InOrder(known) ==
  /\ "service" \in known => "if" \in known
  /\ "cmd" \in known \/ "rsp" \in known => "service" \in known
  /\ "cccd" \in known => "rsp" \in known

(* ... and a report is due only when the callback that asks for it has run.  *)
Due(report, known) ==
  /\ report = "serviceCreated" => "if" \in known
  /\ report = "cccdAdded" => "rsp" \in known

GattInv ==
  /\ handles \subseteq Handles /\ events \in Seq(Reports) /\ advertising \in BOOLEAN
  /\ InOrder(handles) /\ \A i \in DOMAIN events : Due(events[i], handles)

(* A callback keeps that when what it asks for may be asked for by now.      *)
LEMMA LearnsKeeps ==
  ASSUME GattInv, events # <<>>, advertising' \in BOOLEAN,
         NEW new \in SUBSET Handles, NEW requests \in Seq(Reports), Learns(new, requests),
         InOrder(handles \cup new),
         \A i \in 1..Len(requests) : Due(requests[i], handles \cup new)
  PROVE  GattInv'
<1>1. PICK n \in 0..Len(requests) : events' = Tail(events) \o SubSeq(requests, 1, n)
  BY DEF Learns
<1>2. handles' = handles \cup new /\ events \in Seq(Reports) /\ handles \subseteq Handles
  BY DEF Learns, GattInv
<1> DEFINE rest == Tail(events)
           more == SubSeq(requests, 1, n)
<1>3. /\ rest \in Seq(Reports) /\ Len(rest) = Len(events) - 1
      /\ \A i \in 1..Len(rest) : rest[i] = events[i + 1]
  BY <1>2
<1>4. /\ more \in Seq(Reports) /\ Len(more) = n
      /\ \A i \in 1..Len(more) : more[i] = requests[i]
  OBVIOUS
<1> HIDE DEF rest, more
<1>5. events' = rest \o more
  BY <1>1 DEF rest, more
<1>6. events' \in Seq(Reports)
  BY <1>3, <1>4, <1>5
<1>7. ASSUME NEW i \in DOMAIN events'
      PROVE  \/ \E j \in DOMAIN events : events'[i] = events[j]
             \/ \E j \in 1..Len(requests) : events'[i] = requests[j]
  <2>1. i \in 1..(Len(rest) + Len(more))
    BY <1>3, <1>4, <1>5
  <2>2. CASE i <= Len(rest)
    <3>1. events'[i] = events[i + 1] /\ i + 1 \in DOMAIN events
      BY <1>2, <1>3, <1>4, <1>5, <2>1, <2>2
    <3> QED BY <3>1, Zenon
  <2>3. CASE i > Len(rest)
    <3>1. events'[i] = requests[i - Len(rest)] /\ i - Len(rest) \in 1..Len(requests)
      BY <1>3, <1>4, <1>5, <2>1, <2>3
    <3> QED BY <3>1, Zenon
  <2> QED BY <1>3, <2>1, <2>2, <2>3
<1>8. \A r : Due(r, handles) => Due(r, handles')
  BY <1>2 DEF Due
<1>9. ASSUME NEW i \in DOMAIN events' PROVE Due(events'[i], handles')
  BY <1>2, <1>7, <1>8, Zenon DEF GattInv
<1> QED BY <1>2, <1>6, <1>9, Zenon DEF GattInv

(* The reports of the stack, in whatever order they come.                    *)
(* The callbacks for the reports of the stack ...                            *)
LEMMA ReportKeeps == ASSUME GattInv, OnReport PROVE GattInv'
<1>1. /\ events # <<>> /\ advertising' \in BOOLEAN /\ events \in Seq(Reports)
      /\ Head(events) \in Reports
  <2>1. events # <<>> /\ events \in Seq(Reports)
    BY DEF GattInv, OnReport
  <2>2. advertising' \in BOOLEAN
    BY Zenon DEF GattInv, OnReport
  <2> QED BY <2>1, <2>2
<1>2. InOrder(handles) /\ Due(Head(events), handles)
  <2>1. Head(events) = events[1] /\ 1 \in DOMAIN events
    BY <1>1
  <2> QED BY <2>1, Zenon DEF GattInv
<1>3. ASSUME NEW new \in SUBSET Handles, NEW requests \in Seq(Reports), Learns(new, requests),
             InOrder(handles \cup new),
             \A i \in 1..Len(requests) : Due(requests[i], handles \cup new)
      PROVE  GattInv'
  BY <1>1, <1>3, LearnsKeeps, Zenon
<1> USE DEF Handles, Reports
<1>4. ASSUME Learns({}, <<>>) PROVE GattInv'
  <2> DEFINE new == {}
             requests == <<>>
  <2>1. /\ new \in SUBSET Handles /\ requests \in Seq(Reports) /\ InOrder(handles \cup new)
        /\ \A i \in 1..Len(requests) : Due(requests[i], handles \cup new)
    BY <1>2, <1>4 DEF InOrder, Due
  <2>2. Learns(new, requests)
    BY <1>4
  <2> HIDE DEF new, requests
  <2> QED BY <1>3, <2>1, <2>2, Zenon
<1>5. ASSUME Learns({"if"}, <<"advConfigured", "serviceCreated">>) PROVE GattInv'
  <2> DEFINE new == {"if"}
             requests == <<"advConfigured", "serviceCreated">>
  <2>1. /\ new \in SUBSET Handles /\ requests \in Seq(Reports) /\ InOrder(handles \cup new)
        /\ \A i \in 1..Len(requests) : Due(requests[i], handles \cup new)
    BY <1>2, <1>5 DEF InOrder, Due
  <2>2. Learns(new, requests)
    BY <1>5
  <2> HIDE DEF new, requests
  <2> QED BY <1>3, <2>1, <2>2, Zenon
<1>6. ASSUME Head(events) = "serviceCreated", Learns({"service"}, <<"cmdAdded", "rspAdded">>)
      PROVE  GattInv'
  <2> DEFINE new == {"service"}
             requests == <<"cmdAdded", "rspAdded">>
  <2>1. /\ new \in SUBSET Handles /\ requests \in Seq(Reports) /\ InOrder(handles \cup new)
        /\ \A i \in 1..Len(requests) : Due(requests[i], handles \cup new)
    BY <1>2, <1>6 DEF InOrder, Due
  <2>2. Learns(new, requests)
    BY <1>6
  <2> HIDE DEF new, requests
  <2> QED BY <1>3, <2>1, <2>2, Zenon
<1>7. ASSUME "service" \in handles, Learns({"cmd"}, <<>>) PROVE GattInv'
  <2> DEFINE new == {"cmd"}
             requests == <<>>
  <2>1. /\ new \in SUBSET Handles /\ requests \in Seq(Reports) /\ InOrder(handles \cup new)
        /\ \A i \in 1..Len(requests) : Due(requests[i], handles \cup new)
    BY <1>2, <1>7 DEF InOrder, Due
  <2>2. Learns(new, requests)
    BY <1>7
  <2> HIDE DEF new, requests
  <2> QED BY <1>3, <2>1, <2>2, Zenon
<1>8. ASSUME "service" \in handles, Learns({"rsp"}, <<"cccdAdded">>) PROVE GattInv'
  <2> DEFINE new == {"rsp"}
             requests == <<"cccdAdded">>
  <2>1. /\ new \in SUBSET Handles /\ requests \in Seq(Reports) /\ InOrder(handles \cup new)
        /\ \A i \in 1..Len(requests) : Due(requests[i], handles \cup new)
    BY <1>2, <1>8 DEF InOrder, Due
  <2>2. Learns(new, requests)
    BY <1>8
  <2> HIDE DEF new, requests
  <2> QED BY <1>3, <2>1, <2>2, Zenon
<1>9. ASSUME Head(events) = "cccdAdded", Learns({"cccd"}, <<>>) PROVE GattInv'
  <2> DEFINE new == {"cccd"}
             requests == <<>>
  <2>1. /\ new \in SUBSET Handles /\ requests \in Seq(Reports) /\ InOrder(handles \cup new)
        /\ \A i \in 1..Len(requests) : Due(requests[i], handles \cup new)
    BY <1>2, <1>9 DEF InOrder, Due
  <2>2. Learns(new, requests)
    BY <1>9
  <2> HIDE DEF new, requests
  <2> QED BY <1>3, <2>1, <2>2, Zenon
<1> QED BY <1>4, <1>5, <1>6, <1>7, <1>8, <1>9, Zenon DEF OnReport, RspAdded, CmdAdded

(* Nothing else touches the handles, or reports, but the start.              *)
(* ... and every other step.                                                 *)
LEMMA GattKeeps == ASSUME GattInv, [BleNext]_bleVars PROVE GattInv'
<1>1. CASE OnReport
  BY <1>1, ReportKeeps
<1>2. CASE StartBle
  <2>1. /\ events' = <<"registered">> /\ UNCHANGED <<handles, advertising>>
    BY <1>2 DEF StartBle
  <2> QED BY <2>1 DEF GattInv, Reports, Due
<1>3. ASSUME UNCHANGED <<handles, events>>, advertising' \in BOOLEAN PROVE GattInv'
  BY <1>3 DEF GattInv
<1>4. ASSUME UNCHANGED gatt PROVE GattInv'
  BY <1>3, <1>4 DEF gatt, GattInv
<1>5. ASSUME NEW p \in Peers, PeerConnected(p) PROVE GattInv'
  BY <1>3, <1>5 DEF PeerConnected
<1> QED BY <1>1, <1>2, <1>4, <1>5, Zenon
        DEF BleNext, bleVars, WaitForReady, TakeCommand, CollectSubscribers, PeerDisconnected,
            WriteCommand, Notify, WriteCccd

------------------------------------------------------------------------------
(* The table of connections: each client that is linked and was not refused, *)
(* once.                                                                     *)

Connections == Seq([peer : Peers, subscribed : BOOLEAN])

TableInv ==
  /\ connections \in Connections /\ Len(connections) <= MAX_CONNECTIONS
  /\ linked \subseteq Peers /\ refused \subseteq linked
  /\ ConnectionsAreLinked

(* The entry of a client is the only one with its name.                      *)
LEMMA IndexOf ==
  ASSUME TableInv, NEW p
  PROVE  \/ Index(p) = 0 /\ \A i \in 1..Len(connections) : connections[i].peer # p
         \/ Index(p) \in 1..Len(connections) /\ connections[Index(p)].peer = p
<1> DEFINE found == {i \in 1..Len(connections) : connections[i].peer = p}
<1>1. Index(p) = IF found = {} THEN 0 ELSE CHOOSE i \in found : \A j \in found : i <= j
  BY DEF Index
<1>2. CASE found = {}
  BY <1>1, <1>2
<1>3. ASSUME NEW i \in found PROVE Index(p) = i
  <2>1. found = {i}
    BY <1>3 DEF TableInv, ConnectionsAreLinked, Connections
  <2>2. (CHOOSE x \in {i} : \A j \in {i} : x <= j) = i
    BY <1>3
  <2> HIDE DEF found
  <2> QED BY <1>1, <2>1, <2>2
<1> QED BY <1>2, <1>3

(* swap_remove takes the entry out, and keeps every other.                   *)
LEMMA SwapRemoves ==
  ASSUME NEW s \in Connections, NEW i \in 1..Len(s)
  PROVE  /\ SwapRemove(s, i) \in Connections /\ Len(SwapRemove(s, i)) = Len(s) - 1
         /\ \A k \in 1..(Len(s) - 1) : SwapRemove(s, i)[k] = IF k = i THEN s[Len(s)] ELSE s[k]
<1> DEFINE t == [s EXCEPT ![i] = s[Len(s)]]
           Entries == [peer : Peers, subscribed : BOOLEAN]
<1>0. Connections = Seq(Entries)
  BY DEF Connections
<1> HIDE DEF Entries
<1>1. t \in Seq(Entries) /\ Len(t) = Len(s)
  <2>1. s \in Seq(Entries) /\ s[Len(s)] \in Entries /\ i \in 1..Len(s)
    BY <1>0
  <2> QED BY <2>1, SeqReplaced
<1>2. \A k \in 1..Len(s) : t[k] = IF k = i THEN s[Len(s)] ELSE s[k]
  BY <1>0
<1> HIDE DEF t
<1>3. SwapRemove(s, i) = SubSeq(t, 1, Len(s) - 1)
  BY DEF SwapRemove, t
<1>4. SwapRemove(s, i) \in Seq(Entries) /\ Len(SwapRemove(s, i)) = Len(s) - 1
  BY <1>0, <1>1, <1>3
<1>5. \A k \in 1..(Len(s) - 1) : SwapRemove(s, i)[k] = t[k]
  BY <1>0, <1>1, <1>3
<1> QED BY <1>0, <1>2, <1>4, <1>5

LEMMA ConnectKeeps ==
  ASSUME TableInv, NEW p \in Peers, PeerConnected(p) PROVE TableInv'
<1> DEFINE entry == [peer |-> p, subscribed |-> FALSE]
           Entries == [peer : Peers, subscribed : BOOLEAN]
<1>1. /\ p \notin linked /\ linked' = linked \cup {p} /\ p \notin refused
      /\ entry \in Entries /\ entry.peer = p /\ Connections = Seq(Entries)
  BY DEF PeerConnected, TableInv, Connections
<1> HIDE DEF entry, Entries
<1>2. CASE Len(connections) < MAX_CONNECTIONS
  <2>1. connections' = Append(connections, entry) /\ refused' = refused
    BY <1>2 DEF PeerConnected, entry
  <2>2. /\ connections' \in Seq(Entries) /\ Len(connections') = Len(connections) + 1
        /\ \A k \in 1..Len(connections) : connections'[k] = connections[k]
        /\ connections'[Len(connections) + 1] = entry
    BY <1>1, <2>1 DEF TableInv
  <2>3. connections \in Seq(Entries) /\ \A k \in 1..Len(connections) : connections[k].peer # p
    BY <1>1 DEF TableInv, ConnectionsAreLinked
  <2>4. \A i, j \in DOMAIN connections' : connections'[i].peer = connections'[j].peer => i = j
    BY <1>1, <2>2, <2>3 DEF TableInv, ConnectionsAreLinked
  <2>5. {connections'[i].peer : i \in DOMAIN connections'}
          = {connections[i].peer : i \in DOMAIN connections} \cup {p}
    BY <1>1, <2>2, <2>3
  <2>6. Len(connections') <= MAX_CONNECTIONS
    BY <1>2, <2>2, <2>3, BleAssumption
  <2> QED BY <1>1, <2>1, <2>2, <2>4, <2>5, <2>6 DEF TableInv, ConnectionsAreLinked
<1>3. CASE ~(Len(connections) < MAX_CONNECTIONS)
  BY <1>1, <1>3 DEF PeerConnected, TableInv, ConnectionsAreLinked
<1> QED BY <1>2, <1>3

LEMMA DisconnectKeeps ==
  ASSUME TableInv, NEW p \in Peers, PeerDisconnected(p) PROVE TableInv'
<1> DEFINE Names == {connections[i].peer : i \in DOMAIN connections}
<1>1. /\ p \in linked /\ linked' = linked \ {p} /\ refused' = refused \ {p}
      /\ connections' = IF Index(p) = 0 THEN connections ELSE SwapRemove(connections, Index(p))
      /\ connections \in Connections
  BY DEF PeerDisconnected, TableInv
<1>2. CASE Index(p) = 0
  <2>1. p \notin Names
    BY <1>1, <1>2, IndexOf DEF Connections
  <2> QED BY <1>1, <1>2, <2>1 DEF TableInv, ConnectionsAreLinked
<1>3. CASE Index(p) # 0
  <2> DEFINE n == Len(connections)
             i == Index(p)
  <2>1. i \in 1..n /\ connections[i].peer = p /\ n \in Nat
    BY <1>1, <1>3, IndexOf DEF Connections
  <2>2. /\ connections' \in Connections /\ Len(connections') = n - 1
        /\ \A k \in 1..(n - 1) : connections'[k] = IF k = i THEN connections[n] ELSE connections[k]
    <3>1. connections' = SwapRemove(connections, i) /\ connections \in Connections
      BY <1>1, <1>3, Zenon
    <3> HIDE DEF i
    <3> QED BY <2>1, <3>1, SwapRemoves, Zenon
  <2>3. DOMAIN connections = 1..n /\ DOMAIN connections' = 1..(n - 1)
    BY <1>1, <2>2 DEF Connections
  <2>4. \A j, k \in 1..n : connections[j].peer = connections[k].peer => j = k
    BY <2>3 DEF TableInv, ConnectionsAreLinked
  <2> HIDE DEF i, n
  <2>5. \A j, k \in 1..(n - 1) : connections'[j].peer = connections'[k].peer => j = k
    BY <2>1, <2>2, <2>4
  <2>6. \A k \in 1..(n - 1) : connections'[k].peer \in Names /\ connections'[k].peer # p
    BY <2>1, <2>2, <2>3, <2>4
  <2>7. ASSUME NEW j \in 1..n, connections[j].peer # p
        PROVE  \E k \in 1..(n - 1) : connections'[k].peer = connections[j].peer
    <3>1. CASE j = n
      BY <2>1, <2>2, <2>7, <3>1
    <3>2. CASE j # n
      BY <2>1, <2>2, <2>7, <3>2
    <3> QED BY <3>1, <3>2
  <2>8. {connections'[k].peer : k \in DOMAIN connections'} = Names \ {p}
    BY <2>3, <2>6, <2>7
  <2>9. n <= MAX_CONNECTIONS
    BY DEF TableInv, n
  <2>10. Len(connections') <= MAX_CONNECTIONS
    BY <2>1, <2>2, <2>9, BleAssumption
  <2>11. Names = linked \ refused
    BY DEF TableInv, ConnectionsAreLinked
  <2> HIDE DEF Names
  <2>12. linked' \ refused' = Names \ {p} /\ linked' \subseteq Peers /\ refused' \subseteq linked'
    BY <1>1, <2>11 DEF TableInv
  <2> QED BY <2>2, <2>3, <2>5, <2>8, <2>10, <2>12, Zenon DEF TableInv, ConnectionsAreLinked
<1> QED BY <1>2, <1>3

LEMMA CccdKeeps ==
  ASSUME TableInv, NEW p \in Peers, NEW on \in BOOLEAN, WriteCccd(p, on) PROVE TableInv'
<1> DEFINE n == Len(connections)
           i == Index(p)
<1>1. /\ connections \in Connections /\ connections' = [connections EXCEPT ![i].subscribed = on]
      /\ i \in 1..n /\ UNCHANGED <<linked, refused>>
  BY IndexOf DEF WriteCccd, TableInv
<1> HIDE DEF i
<1>2. /\ connections' \in Connections /\ Len(connections') = n
      /\ \A k \in 1..n : connections'[k].peer = connections[k].peer
  <2> DEFINE Entries == [peer : Peers, subscribed : BOOLEAN]
             entry == [connections[i] EXCEPT !.subscribed = on]
  <2>0. connections \in Seq(Entries) /\ connections[i] \in Entries
    <3> HIDE DEF Entries
    <3>1. connections \in Seq(Entries)
      BY <1>1 DEF Connections, Entries
    <3> QED BY <1>1, <3>1
  <2>1. entry \in Entries /\ entry.peer = connections[i].peer
    BY <2>0
  <2>2. connections' = [connections EXCEPT ![i] = entry]
    BY <1>1
  <2>3. Connections = Seq(Entries)
    BY DEF Connections
  <2> HIDE DEF Entries, entry
  <2> QED BY <1>1, <2>0, <2>1, <2>2, <2>3, SeqReplaced
<1>3. DOMAIN connections = 1..n /\ DOMAIN connections' = 1..n
  BY <1>1, <1>2 DEF Connections
<1>4. /\ \A j, k \in 1..n : connections'[j].peer = connections'[k].peer => j = k
      /\ {connections'[k].peer : k \in 1..n} = {connections[k].peer : k \in 1..n}
  BY <1>2, <1>3 DEF TableInv, ConnectionsAreLinked
<1> QED BY <1>1, <1>2, <1>3, <1>4 DEF TableInv, ConnectionsAreLinked

(* No other step touches the clients.                                        *)
LEMMA TableKeeps == ASSUME TableInv, [BleNext]_bleVars PROVE TableInv'
<1>1. ASSUME UNCHANGED peers PROVE TableInv'
  BY <1>1 DEF peers, TableInv, ConnectionsAreLinked
<1> QED BY <1>1, ConnectKeeps, DisconnectKeeps, CccdKeeps, Zenon
        DEF BleNext, bleVars, StartBle, OnReport, WaitForReady, TakeCommand, CollectSubscribers,
            WriteCommand, Notify

------------------------------------------------------------------------------
(* Some of the commands 1..w in order, and all of those that the queue was   *)
(* never too full for.                                                       *)
Ordered(s, w) ==
  /\ s \in Seq(Nat) /\ \A i \in 1..Len(s) : s[i] <= w
  /\ \A i, j \in 1..Len(s) : i < j => s[i] < s[j]
  /\ \A n \in 1..w : n <= CMD_QUEUE_SIZE => \E i \in 1..Len(s) : s[i] = n

QueueInv ==
  /\ run \in Seq(Nat) /\ commands \in Seq(Nat) /\ written \in 0..MaxWrites
  /\ Len(commands) <= CMD_QUEUE_SIZE /\ Len(run) + Len(commands) <= written
  /\ Ordered(run \o commands, written)

(* A command that is queued is the youngest.                                 *)
LEMMA OrderedAppend ==
  ASSUME NEW s, NEW w \in Nat, Ordered(s, w) PROVE Ordered(Append(s, w + 1), w + 1)
<1> DEFINE t == Append(s, w + 1)
           n == Len(s)
<1>1. /\ s \in Seq(Nat) /\ n \in Nat
      /\ t \in Seq(Nat) /\ Len(t) = n + 1 /\ t[n + 1] = w + 1 /\ \A i \in 1..n : t[i] = s[i]
  BY DEF Ordered
<1>2. /\ \A i \in 1..n : s[i] <= w /\ s[i] \in Nat
      /\ \A i, j \in 1..n : i < j => s[i] < s[j]
      /\ \A k \in 1..w : k <= CMD_QUEUE_SIZE => \E i \in 1..n : s[i] = k
  BY <1>1 DEF Ordered
<1> HIDE DEF t, n
<1>3. \A i \in 1..(n + 1) : t[i] <= w + 1
  BY <1>1, <1>2
<1>4. ASSUME NEW i \in 1..(n + 1), NEW j \in 1..(n + 1), i < j PROVE t[i] < t[j]
  <2>1. i \in 1..n /\ t[i] = s[i] /\ s[i] <= w /\ s[i] \in Nat
    BY <1>1, <1>2, <1>4
  <2>2. CASE j = n + 1
    BY <1>1, <2>1, <2>2
  <2>3. CASE j \in 1..n
    BY <1>1, <1>2, <1>4, <2>1, <2>3
  <2> QED BY <1>1, <2>2, <2>3
<1>5. ASSUME NEW k \in 1..(w + 1), k <= CMD_QUEUE_SIZE PROVE \E i \in 1..(n + 1) : t[i] = k
  <2>1. CASE k = w + 1
    BY <1>1, <2>1
  <2>2. CASE k \in 1..w
    <3>1. PICK i \in 1..n : s[i] = k
      BY <1>2, <1>5, <2>2
    <3> QED BY <1>1, <3>1
  <2> QED BY <2>1, <2>2
<1> QED BY <1>1, <1>3, <1>4, <1>5 DEF Ordered, t

(* One that is dropped comes after as many as the queue holds.               *)
LEMMA OrderedDrop ==
  ASSUME NEW s, NEW w \in Nat, Ordered(s, w), CMD_QUEUE_SIZE <= w PROVE Ordered(s, w + 1)
<1>1. CMD_QUEUE_SIZE \in Nat /\ s \in Seq(Nat) /\ \A i \in 1..Len(s) : s[i] \in Nat
  BY BleAssumption DEF Ordered
<1>2. \A i \in 1..Len(s) : s[i] <= w + 1
  BY <1>1 DEF Ordered
<1>3. \A n \in 1..(w + 1) : n <= CMD_QUEUE_SIZE => n \in 1..w
  BY <1>1
<1> QED BY <1>2, <1>3, Zenon DEF Ordered

(* A command is written ...                                                  *)
LEMMA WriteKeeps ==
  ASSUME QueueInv, NEW p \in Peers, WriteCommand(p) PROVE QueueInv'
<1>1. /\ run \in Seq(Nat) /\ commands \in Seq(Nat) /\ written \in Nat /\ run' = run
      /\ written' = written + 1 /\ written' \in 0..MaxWrites /\ CMD_QUEUE_SIZE \in Nat
      /\ Len(commands) <= CMD_QUEUE_SIZE /\ Len(run) + Len(commands) <= written
      /\ Ordered(run \o commands, written)
  BY BleAssumption DEF QueueInv, WriteCommand
<1>2. CASE Len(commands) < CMD_QUEUE_SIZE
  <2>1. commands' = Append(commands, written + 1)
    BY <1>1, <1>2 DEF WriteCommand
  <2>2. /\ run' \o commands' = Append(run \o commands, written + 1)
        /\ commands' \in Seq(Nat) /\ Len(commands') = Len(commands) + 1
    BY <1>1, <2>1
  <2>3. Ordered(run' \o commands', written')
    BY <1>1, <2>2, OrderedAppend
  <2>4. Len(commands') <= CMD_QUEUE_SIZE /\ Len(run') + Len(commands') <= written'
    BY <1>1, <1>2, <2>2
  <2> QED BY <1>1, <2>2, <2>3, <2>4, Zenon DEF QueueInv
<1>3. CASE ~(Len(commands) < CMD_QUEUE_SIZE)
  <2>1. commands' = commands
    BY <1>3 DEF WriteCommand
  <2>2. CMD_QUEUE_SIZE <= written /\ Len(run') + Len(commands') <= written'
    BY <1>1, <1>3, <2>1
  <2>3. Ordered(run' \o commands', written')
    BY <1>1, <2>1, <2>2, OrderedDrop
  <2> QED BY <1>1, <2>1, <2>2, <2>3, Zenon DEF QueueInv
<1> QED BY <1>2, <1>3

LEMMA HeadMoves ==
  ASSUME NEW s \in Seq(Nat), NEW t \in Seq(Nat), t # <<>>
  PROVE  Append(s, Head(t)) \o Tail(t) = s \o t
OBVIOUS

(* ... and taken by the main loop, in front.                                 *)
LEMMA TakeKeeps == ASSUME QueueInv, TakeCommand PROVE QueueInv'
<1>1. /\ run \in Seq(Nat) /\ commands \in Seq(Nat) /\ commands # <<>> /\ written' = written
      /\ run' = Append(run, Head(commands)) /\ commands' = Tail(commands)
  BY DEF QueueInv, TakeCommand
<1>2. /\ run' \in Seq(Nat) /\ commands' \in Seq(Nat) /\ Len(run') = Len(run) + 1
      /\ Len(commands') = Len(commands) - 1
  BY <1>1
<1>3. run' \o commands' = run \o commands
  BY <1>1, HeadMoves, Zenon
<1>4. Len(commands') <= CMD_QUEUE_SIZE /\ Len(run') + Len(commands') <= written'
  BY <1>1, <1>2, BleAssumption DEF QueueInv
<1> QED BY <1>1, <1>2, <1>3, <1>4, Zenon DEF QueueInv

(* No other step touches the queue.                                          *)
LEMMA QueueKeeps == ASSUME QueueInv, [BleNext]_bleVars PROVE QueueInv'
<1>1. ASSUME UNCHANGED <<commands, written, run>> PROVE QueueInv'
  BY <1>1, Zenon DEF QueueInv
<1> QED BY <1>1, WriteKeeps, TakeKeeps, Zenon
        DEF BleNext, bleVars, StartBle, OnReport, WaitForReady, PeerConnected, PeerDisconnected,
            WriteCccd, CollectSubscribers, Notify

(* The main loop answers clients only.                                       *)
LoopInv == bleLoop \in [at : {"down", "wait", "loop", "answer"}, to : SUBSET Peers]

LEMMA LoopKeeps == ASSUME LoopInv, TableInv, [BleNext]_bleVars PROVE LoopInv'
<1> DEFINE Loops == [at : {"down", "wait", "loop", "answer"}, to : SUBSET Peers]
<1>0. bleLoop \in Loops
  BY DEF LoopInv
<1>1. CASE StartBle \/ WaitForReady \/ TakeCommand
  BY <1>0, <1>1 DEF LoopInv, StartBle, WaitForReady, TakeCommand
<1>2. CASE CollectSubscribers
  <2>1. Subscribers \in SUBSET Peers
    <3> DEFINE Entries == [peer : Peers, subscribed : BOOLEAN]
    <3>1. \A i \in DOMAIN connections : connections[i].peer \in Peers
      <4>1. connections \in Seq(Entries) /\ \A e \in Entries : e.peer \in Peers
        BY DEF TableInv, Connections
      <4> HIDE DEF Entries
      <4>2. \A i \in DOMAIN connections : connections[i] \in Entries
        BY <4>1, SeqIsFunction, Zenon
      <4> QED BY <4>1, <4>2, Zenon
    <3> QED BY <3>1, Zenon DEF Subscribers
  <2> QED BY <1>0, <1>2, <2>1 DEF LoopInv, CollectSubscribers
<1>3. ASSUME NEW p \in Peers, Notify(p) PROVE LoopInv'
  BY <1>0, <1>3 DEF LoopInv, Notify
<1>4. ASSUME UNCHANGED bleLoop PROVE LoopInv'
  BY <1>4 DEF LoopInv
<1> QED BY <1>1, <1>2, <1>3, <1>4, Zenon
        DEF BleNext, bleVars, OnReport, PeerConnected, PeerDisconnected, WriteCommand, WriteCccd

------------------------------------------------------------------------------
(* The transport as a whole.                                                 *)

BleInv == GattInv /\ TableInv /\ QueueInv /\ LoopInv

LEMMA BleInvInit == BleInit => BleInv
<1> SUFFICES ASSUME BleInit PROVE BleInv
  OBVIOUS
<1>1. GattInv
  <2>1. events \in Seq(Reports) /\ DOMAIN events = {}
    BY DEF BleInit
  <2> QED BY <2>1, Zenon DEF BleInit, GattInv, InOrder, Handles
<1>2. TableInv
  BY BleAssumption DEF BleInit, TableInv, Connections, ConnectionsAreLinked
<1>3. QueueInv
  BY BleAssumption DEF BleInit, QueueInv, Ordered
<1>4. LoopInv
  BY DEF BleInit, LoopInv
<1> QED BY <1>1, <1>2, <1>3, <1>4 DEF BleInv

LEMMA BleInvStep == BleInv /\ [BleNext]_bleVars => BleInv'
BY GattKeeps, TableKeeps, QueueKeeps, LoopKeeps, Zenon DEF BleInv

(* The inductive invariant of the transport.                                 *)
THEOREM BleInvariant == BleSpec => []BleInv
BY BleInvInit, BleInvStep, PTL DEF BleSpec

(* Handles, table, queue and the answers of the main loop keep their types,  *)
(* the table and the queue their capacities.                                 *)
LEMMA BleTypes == BleInv => BleTypeOK
BY DEF BleInv, GattInv, TableInv, QueueInv, LoopInv, Connections, BleTypeOK

(* Whatever the order of the callbacks, a server that is ready can answer,   *)
(* the table is that of the clients, and commands run in the order they were *)
(* written: for any number of clients, commands and places in the queue.     *)
THEOREM ServesItsClients == BleSpec => []ServesClients
<1>1. GattInv => ReadyCanAnswer
  BY DEF GattInv, InOrder, ReadyCanAnswer, Ready
<1>2. TableInv => ConnectionsAreLinked
  BY DEF TableInv
<1>3. QueueInv => RunInOrder
  <2> DEFINE all == run \o commands
  <2>1. QueueInv => Ordered(all, written)
    BY DEF QueueInv
  <2>2. Ordered(all, written) => DOMAIN all = 1..Len(all)
    BY DEF Ordered
  <2> HIDE DEF all
  <2>3. Ordered(all, written) =>
          /\ \A i, j \in DOMAIN all : i < j => all[i] < all[j]
          /\ \A n \in 1..written : n <= CMD_QUEUE_SIZE => n \in Range(all)
    BY <2>2, Zenon DEF Ordered, Range
  <2> QED BY <2>1, <2>3 DEF RunInOrder, all
<1> QED BY <1>1, <1>2, <1>3, BleInvariant, PTL DEF ServesClients, BleInv

------------------------------------------------------------------------------
(* The parts together: a behaviour of the device is one of each of its       *)
(* parts, and has the properties proved of them.                             *)

(* A step of the device is one of each part, or leaves that part alone.      *)
LEMMA DeviceSteps ==
  ASSUME [MCNext]_device
  PROVE  /\ [ConsoleNext]_console /\ [ButtonsNext]_buttonVars /\ [BleNext]_bleVars
         /\ [BootNext]_bootVars /\ [NetNext]_netVars /\ [OtaNext]_vars
<1>1. CASE UNCHANGED device
  BY <1>1, Zenon DEF device
<1>2. CASE MCNext
  BY <1>2, Zenon DEF MCNext
<1> QED BY <1>1, <1>2

(* The device is each of its parts: what one part does is never a step that  *)
(* another could not take.                                                   *)
THEOREM DeviceIsItsParts ==
  MCSpec => /\ ConsoleSpec /\ ButtonsSpec /\ BleSpec
            /\ BootSpec /\ NetSpec /\ OtaSpec
<1>1. MCInit => ConsoleInit /\ ButtonsInit /\ BleInit /\ BootInit /\ NetInit /\ OtaInit
  BY Zenon DEF MCInit
<1>2. [MCNext]_device =>
        /\ [ConsoleNext]_console /\ [ButtonsNext]_buttonVars /\ [BleNext]_bleVars
        /\ [BootNext]_bootVars /\ [NetNext]_netVars /\ [OtaNext]_vars
  BY DeviceSteps, Zenon
<1> QED BY <1>1, <1>2, PTL
        DEF MCSpec, ConsoleSpec, ButtonsSpec, BleSpec, BootSpec, NetSpec, OtaSpec

(* Every variable of the six parts keeps its type: lines, queues, tables and *)
(* counters of the firmware stay within the sizes that the code gives them.  *)
THEOREM DeviceTypesHold == MCSpec => []DeviceTypeOK
<1>1. ConsoleInv /\ BleInv => ConsoleTypeOK /\ BleTypeOK
  BY ConsoleTypes, BleTypes
<1>2. MCSpec => [](ConsoleTypeOK /\ BleTypeOK)
  BY <1>1, DeviceIsItsParts, ConsoleInvariant, BleInvariant, PTL
<1>3. MCSpec => [](ButtonsTypeOK /\ BootTypeOK)
  BY DeviceIsItsParts, ButtonsTypesHold, BootTypesHold, PTL
<1>4. MCSpec => [](NetTypeOK /\ OtaTypeOK)
  BY DeviceIsItsParts, NetTypesHold, OtaTypesHold, PTL
<1> QED BY <1>2, <1>3, <1>4, PTL DEF DeviceTypeOK

(* The properties of the parts, of the device: its lines are commands, its   *)
(* presses do as shown, its clients are served, its settings remembered,     *)
(* what is provisioned is served, and updates are reversible.                *)
THEOREM DeviceKeepsItsPromises ==
  MCSpec => [](/\ LinesAreCommands /\ PressDoesAsShown /\ ServesClients
               /\ BootRemembers /\ ProvisionedIsServed /\ UpdatesAreReversible)
<1>1. MCSpec => [](LinesAreCommands /\ PressDoesAsShown)
  BY DeviceIsItsParts, ObeysLines, PressesDoAsShown, PTL
<1>2. MCSpec => [](ServesClients /\ BootRemembers)
  BY DeviceIsItsParts, ServesItsClients, Remembers, PTL
<1>3. MCSpec => [](ProvisionedIsServed /\ UpdatesAreReversible)
  BY DeviceIsItsParts, ServesProvisioned, Reversible, PTL
<1> QED BY <1>1, <1>2, <1>3, PTL
==============================================================================
