------------------------ MODULE ElevationSmokeProofs ------------------------
(***************************************************************************)
(* Programs in front of a terminal, for any accounts, passwords and lines, *)
(* entered in any portions: what passwd made of the answers it was given,  *)
(* however early they were typed and whatever other runs do.               *)
(***************************************************************************)
EXTENDS ElevationSmoke, FiniteSetTheorems, SequenceTheorems, TLAPS

-----------------------------------------------------------------------------
(* passwd: the inductive invariant                                         *)

\* What is entered and not read, and what is not entered.
pending == queue \o script

\* Texts of one line.
OneLine == {<<w>> : w \in Words}

\* The answer to the first prompt; root is not asked.
Old == IF caller = root THEN <<>> ELSE stored

DialogTypeOK ==
  /\ input \in Inputs
  /\ caller \in Users /\ target \in Users
  /\ given \in Seq(Words) /\ script \in Seq(Words) /\ queue \in Seq(Words)
  /\ stored \in Seq(Words) /\ new \in Seq(Words) /\ confirm \in Seq(Words)
  /\ db \in [Users -> Seq(Words)]
  /\ pc \in {"start", "current", "new", "confirm", "check", "set", "exit"}

\* The answers so far and what is still to be read are what was given.
AnswersRead ==
  /\ pc \in {"start", "current"} => given = pending
  /\ pc = "new" => given = Old \o pending
  /\ pc = "confirm" => given = Old \o (new \o pending)
  /\ pc \in {"check", "set"} => given = Old \o (new \o (confirm \o pending))

\* A terminal gives a line, or nothing because there is no more.
ALineOrEnd(text) == text \in OneLine \/ (text = <<>> /\ pending = <<>>)

\* Who has got to a prompt was let there, and what is to be stored was confirmed.
PromptOK ==
  /\ pc = "current" => caller # root
  /\ pc \in {"current", "new", "confirm", "check", "set"} => caller \in {root, target}
  /\ pc \in {"confirm", "check", "set"} => ALineOrEnd(new)
  /\ pc \in {"check", "set"} => ALineOrEnd(confirm)
  /\ pc = "set" => new = confirm /\ new # <<>>
  /\ pc = "exit" <=> result # "none"

DialogInv == DialogTypeOK /\ AnswersRead /\ PromptOK /\ ChangeIsEntered

\* What verifies a hash is one line, and so is the answer that does.
LinesStored ==
  /\ \A u \in Users : db[u] \in OneLine
  /\ pc \in {"start", "exit"} \/ Old \in OneLine \/ caller = root

\* Nobody is refused who was permitted and gave what is documented.
RefusedRightly ==
  result \in {"not-permitted", "authentication-failure", "passwords-mismatch", "empty-password"}
    => caller \notin {root, target} \/ \A w \in Words : given # Documented(w)

Results == {"none", "changed", "not-permitted", "authentication-failure", "passwords-mismatch",
            "empty-password"} \cup Failures

RefusalInv == LinesStored /\ RefusedRightly /\ result \in Results

-----------------------------------------------------------------------------
(* Lines                                                                   *)

\* A sequence is what is taken from its front and what is left.
LEMMA FrontAndRest ==
  ASSUME NEW S, NEW s \in Seq(S), NEW n \in 0..Len(s)
  PROVE  /\ SubSeq(s, 1, n) \in Seq(S) /\ SubSeq(s, n + 1, Len(s)) \in Seq(S)
         /\ SubSeq(s, 1, n) \o SubSeq(s, n + 1, Len(s)) = s
<1>1. 1 \in 1..Len(s) + 1 /\ n \in (1 - 1)..Len(s) /\ Len(s) \in n..Len(s)
  OBVIOUS
<1>2. SubSeq(s, 1, n) \o SubSeq(s, n + 1, Len(s)) = SubSeq(s, 1, Len(s))
  BY <1>1, ConcatAdjacentSubSeq
<1>3. SubSeq(s, 1, n) \o SubSeq(s, n + 1, Len(s)) = s
  BY <1>2, SubSeqFull
<1>4. SubSeq(s, 1, n) \in Seq(S) /\ SubSeq(s, n + 1, Len(s)) \in Seq(S)
  BY SubSeqProperties
<1>. QED
  BY <1>3, <1>4

\* Entering lines changes nothing about what is pending.
LEMMA EnterKeepsPending ==
  ASSUME queue \in Seq(Words), script \in Seq(Words), Enter
  PROVE  /\ queue' \in Seq(Words) /\ script' \in Seq(Words)
         /\ pending' = pending
<1>1. PICK n \in 1..Len(script) :
        /\ queue' = queue \o SubSeq(script, 1, n)
        /\ script' = SubSeq(script, n + 1, Len(script))
  BY DEF Enter
<1>2. SubSeq(script, 1, n) \in Seq(Words) /\ script' \in Seq(Words)
  BY <1>1, FrontAndRest
<1>3. SubSeq(script, 1, n) \o SubSeq(script, n + 1, Len(script)) = script
  BY FrontAndRest
<1>4. queue' \in Seq(Words)
  BY <1>1, <1>2
<1>5. (queue \o SubSeq(script, 1, n)) \o script' = queue \o (SubSeq(script, 1, n) \o script')
  BY <1>2, ConcatAssociative
<1>. QED
  BY <1>1, <1>2, <1>3, <1>4, <1>5 DEF pending

\* A read from a terminal takes the first line of what is pending, or finds the end.
LEMMA ReadTakesLine ==
  ASSUME input = "tty", queue \in Seq(Words), script \in Seq(Words),
         NEW text, NEW left, ReadLine(text, left)
  PROVE  /\ text \in Seq(Words) /\ left \in Seq(Words)
         /\ pending = text \o (left \o script)
         /\ text \in OneLine \/ (text = <<>> /\ left \o script = <<>>)
<1>1. CASE AtEnd
  BY <1>1, ConcatEmptySeq DEF ReadLine, AtEnd, pending
<1>2. CASE queue # <<>>
  <2>1. text = SubSeq(queue, 1, 1) /\ left = SubSeq(queue, 2, Len(queue))
    BY <1>2 DEF ReadLine, AtEnd
  <2>2. Len(queue) >= 1
    BY <1>2
  <2>3. text = <<queue[1]>> /\ queue[1] \in Words
    <3>1. queue[1] \in Words
      BY <2>2
    <3>2. text \in Seq(Words) /\ Len(text) = 1 /\ text[1] = queue[1]
      BY <2>1, <2>2
    <3>. QED
      BY <3>1, <3>2
  <2>4. left \in Seq(Words)
    BY <2>1, <2>2
  <2>5. text \o left = queue
    <3>1. /\ 1 \in 1..Len(queue) + 1 /\ 1 \in (1 - 1)..Len(queue)
          /\ Len(queue) \in 1..Len(queue)
      BY <2>2
    <3>2. SubSeq(queue, 1, 1) \o SubSeq(queue, 1 + 1, Len(queue)) = SubSeq(queue, 1, Len(queue))
      BY <3>1, ConcatAdjacentSubSeq
    <3>. QED
      BY <2>1, <3>2, SubSeqFull
  <2>6. text \in Seq(Words)
    BY <2>3
  <2>7. (text \o left) \o script = text \o (left \o script)
    BY <2>4, <2>6, ConcatAssociative
  <2>. QED
    BY <2>3, <2>4, <2>5, <2>6, <2>7 DEF pending, OneLine
<1>. QED
  BY <1>1, <1>2 DEF ReadLine

\* Two prompts answered by one line each, after an answer that may be none.
LEMMA StartsWithDocumented ==
  ASSUME NEW old \in Seq(Words), NEW w \in Words, NEW more \in Seq(Words), NEW typed,
         typed = old \o <<w, w>>
  PROVE  LET all == old \o (<<w>> \o (<<w>> \o more))
         IN  Len(all) >= Len(typed) /\ SubSeq(all, 1, Len(typed)) = typed
<1> DEFINE all == old \o (<<w>> \o (<<w>> \o more))
<1>1. <<w>> \o (<<w>> \o more) = <<w, w>> \o more
  OBVIOUS
<1>2. typed \in Seq(Words) /\ Len(typed) = Len(old) + 2
  BY ConcatProperties
<1>3. all = typed \o more
  <2>1. (old \o <<w, w>>) \o more = old \o (<<w, w>> \o more)
    BY ConcatAssociative
  <2>. QED
    BY <1>1, <2>1
<1>4. Len(all) = Len(typed) + Len(more)
  BY <1>2, <1>3, ConcatProperties
<1>5. SubSeq(typed \o more, 1, Len(typed)) = SubSeq(typed, 1, Len(typed))
  <2>1. 1 \in 1..Len(typed) /\ Len(typed) \in 1..Len(typed)
    BY <1>2
  <2>. QED
    BY <1>2, <2>1, SubSeqOfConcat1
<1>6. SubSeq(typed, 1, Len(typed)) = typed
  BY <1>2, SubSeqFull
<1>. QED
  BY <1>2, <1>3, <1>4, <1>5, <1>6

-----------------------------------------------------------------------------
(* passwd: what was given                                                  *)

LEMMA DialogInit ==
  ASSUME Init
  PROVE  DialogInv
<1>1. given \in Seq(Words) /\ <<>> \o given = given
  BY ScriptsAssumption, ConcatEmptySeq DEF Init
<1>2. DialogTypeOK
  BY <1>1, InitDbAssumption DEF Init, DialogTypeOK
<1>3. AnswersRead
  BY <1>1 DEF Init, AnswersRead, pending
<1>. QED
  BY <1>2, <1>3 DEF Init, DialogInv, PromptOK, ChangeIsEntered

\* What an answer takes from what is pending.
LEMMA AnswerTakes ==
  ASSUME input = "tty", queue \in Seq(Words), script \in Seq(Words),
         NEW text, ReadLine(text, queue'), script' = script
  PROVE  /\ text \in Seq(Words) /\ queue' \in Seq(Words)
         /\ pending' \in Seq(Words) /\ pending = text \o pending'
         /\ text \in OneLine \/ (text = <<>> /\ pending' = <<>>)
         /\ pending = <<>> => pending' = <<>>
<1>1. /\ text \in Seq(Words) /\ queue' \in Seq(Words)
      /\ pending = text \o (queue' \o script)
      /\ text \in OneLine \/ (text = <<>> /\ queue' \o script = <<>>)
  BY ReadTakesLine
<1>2. pending' = queue' \o script /\ pending' \in Seq(Words)
  BY <1>1 DEF pending
<1>. QED
  BY <1>1, <1>2, ConcatEqualIffEmpty

\* A prompt that gets its answer.
LEMMA PromptsKeep ==
  ASSUME input = "tty", DialogInv, PromptCurrent \/ PromptNew \/ PromptConfirm
  PROVE  DialogInv'
<1> USE DEF DialogInv, asked
<1>0. queue \in Seq(Words) /\ script \in Seq(Words)
  BY DEF DialogTypeOK
<1>1. CASE PromptCurrent
  <2>1. PICK text : /\ ReadLine(text, queue')
                    /\ IF text = stored THEN pc' = "new" /\ result' = result
                       ELSE deny("authentication-failure")
    BY <1>1 DEF PromptCurrent
  <2>2. script' = script
    BY <1>1 DEF PromptCurrent
  <2>. QED
    BY <1>0, <1>1, <2>1, <2>2, AnswerTakes
       DEF PromptCurrent, deny, DialogTypeOK, AnswersRead, PromptOK, ChangeIsEntered, Old
<1>2. CASE PromptNew
  <2>1. ReadLine(new', queue') /\ script' = script
    BY <1>2 DEF PromptNew
  <2>2. pending = new' \o pending'
    BY <1>0, <2>1, AnswerTakes
  <2>. QED
    BY <1>0, <1>2, <2>1, <2>2, AnswerTakes
       DEF PromptNew, DialogTypeOK, AnswersRead, PromptOK, ALineOrEnd, ChangeIsEntered, Old
<1>3. CASE PromptConfirm
  <2>1. ReadLine(confirm', queue') /\ script' = script
    BY <1>3 DEF PromptConfirm
  <2>2. pending = confirm' \o pending'
    BY <1>0, <2>1, AnswerTakes
  <2>. QED
    BY <1>0, <1>3, <2>1, <2>2, AnswerTakes
       DEF PromptConfirm, DialogTypeOK, AnswersRead, PromptOK, ALineOrEnd, ChangeIsEntered, Old
<1>. QED
  BY <1>1, <1>2, <1>3

\* The change itself: the answers before it are the ones ChangeIsEntered tells.
LEMMA SetHashKeeps ==
  ASSUME DialogInv, SetHash
  PROVE  DialogInv'
<1> USE DEF DialogInv, asked
<1>1. /\ new = confirm /\ new # <<>> /\ ALineOrEnd(new)
      /\ given = Old \o (new \o (confirm \o pending))
      /\ caller \in {root, target}
  BY DEF SetHash, AnswersRead, PromptOK
<1>2. PICK w \in Words : new = <<w>>
  BY <1>1 DEF ALineOrEnd, OneLine
<1>3. Old \in Seq(Words) /\ pending \in Seq(Words)
  BY DEF DialogTypeOK, Old, pending
<1>4. Documented(w) = Old \o <<w, w>>
  <2>1. <<>> \o <<w, w>> = <<w, w>>
    OBVIOUS
  <2>. QED
    BY <2>1 DEF Documented, Old
<1>5. LET typed == Documented(w)
      IN  Len(given) >= Len(typed) /\ SubSeq(given, 1, Len(typed)) = typed
  BY <1>1, <1>2, <1>3, <1>4, StartsWithDocumented
<1>6. ChangeIsEntered'
  <2>1. Documented(w)' = Documented(w)
    BY DEF SetHash, Documented
  <2>. QED
    BY <1>1, <1>2, <1>5, <2>1 DEF SetHash, ChangeIsEntered
<1>. QED
  BY <1>6 DEF SetHash, DialogTypeOK, AnswersRead, PromptOK

\* Everything else: no line is read and nothing changed.
LEMMA DialogKept ==
  ASSUME input = "tty", DialogInv, [Next]_vars
  PROVE  DialogInv'
<1> USE DEF DialogInv, asked
<1>1. CASE Enter
  BY <1>1, EnterKeepsPending
     DEF Enter, DialogTypeOK, AnswersRead, PromptOK, ALineOrEnd, ChangeIsEntered, Documented, Old
<1>2. CASE Start \/ NoShadowEntry
  <2>1. /\ pc = "start" /\ result = "none" /\ given = pending
        /\ UNCHANGED <<asked, script, queue, new, confirm, db>>
    BY <1>2 DEF Start, NoShadowEntry, AnswersRead, PromptOK
  <2>2. \/ pc' = "exit" /\ result' \in {"not-permitted", "no-shadow-entry"} /\ stored' = stored
        \/ pc' = "new" /\ caller = root /\ result' = result /\ stored' = stored
        \/ pc' = "current" /\ caller # root /\ target = caller /\ result' = result
             /\ stored' = db[target]
    BY <1>2 DEF Start, NoShadowEntry, deny
  <2>3. pending' = pending /\ pending \in Seq(Words) /\ <<>> \o pending = pending
    BY <2>1, ConcatEmptySeq DEF pending, DialogTypeOK
  <2>4. DialogTypeOK'
    BY <2>1, <2>2 DEF DialogTypeOK
  <2>5. AnswersRead' /\ PromptOK'
    BY <2>1, <2>2, <2>3 DEF AnswersRead, PromptOK, Old
  <2>. QED
    BY <2>1, <2>2, <2>4, <2>5 DEF ChangeIsEntered
<1>3. CASE ReadFails \/ CheckNew \/ SetHashFails
  BY <1>3 DEF ReadFails, CheckNew, SetHashFails, deny, DialogTypeOK, AnswersRead, PromptOK,
              ALineOrEnd, pending, ChangeIsEntered, Documented, Old
<1>4. CASE OtherChange
  <2>1. UNCHANGED <<asked, script, queue, pc, stored, new, confirm, result>>
    BY <1>4 DEF OtherChange
  <2>2. db' \in [Users -> Seq(Words)]
    BY <1>4 DEF OtherChange, DialogTypeOK
  <2>. QED
    BY <2>1, <2>2 DEF DialogTypeOK, AnswersRead, PromptOK, ALineOrEnd, pending,
                      ChangeIsEntered, Documented, Old
<1>5. CASE UNCHANGED vars
  BY <1>5 DEF vars, DialogTypeOK, AnswersRead, PromptOK, ALineOrEnd, pending,
              ChangeIsEntered, Documented, Old
<1>. QED
  BY <1>1, <1>2, <1>3, <1>4, <1>5, PromptsKeep, SetHashKeeps DEF Next

\* Everything passwd does on a terminal keeps the invariant.
LEMMA DialogInvariant ==
  ASSUME Inputs = {"tty"}
  PROVE  Spec => []DialogInv
<1>1. Init => DialogInv
  BY DialogInit
<1>2. DialogInv /\ [Next]_vars => DialogInv'
  BY DialogKept DEF DialogInv, DialogTypeOK
<1>. QED
  BY <1>1, <1>2, PTL DEF Spec

-----------------------------------------------------------------------------
(* passwd: who is refused                                                  *)

\* Two texts are equal if their first lines are, and the rest.
LEMMA FirstLines ==
  ASSUME NEW a \in Words, NEW b \in Words, NEW s \in Seq(Words), NEW t \in Seq(Words),
         <<a>> \o s = <<b>> \o t
  PROVE  a = b /\ s = t
<1>1. (<<a>> \o s)[1] = a /\ (<<b>> \o t)[1] = b
  OBVIOUS
<1>2. a = b /\ <<a>> \in Seq(Words)
  BY <1>1
<1>3. \A x, y, z \in Seq(Words) : x \o y = x \o z => y = z
  BY ConcatSimplifications
<1>. QED
  BY <1>2, <1>3, Zenon

\* The wrong answer to the first prompt is not in a script that is as documented.
LEMMA WrongCurrent ==
  ASSUME NEW w \in Words, NEW o \in Words, NEW text \in Seq(Words), NEW more \in Seq(Words),
         text \in OneLine \/ (text = <<>> /\ more = <<>>),
         <<o>> \o <<w, w>> = text \o more
  PROVE  text = <<o>>
<1>1. <<o>> \o <<w, w>> # <<>> /\ <<>> \o <<>> = <<>>
  OBVIOUS
<1>2. PICK t \in Words : text = <<t>>
  BY <1>1 DEF OneLine
<1>. QED
  BY <1>2, FirstLines

\* Nor are two answers that differ, or are empty.
LEMMA WrongAnswers ==
  ASSUME NEW w \in Words, NEW first \in Seq(Words), NEW second \in Seq(Words),
         NEW more \in Seq(Words),
         first \in OneLine \/ (first = <<>> /\ more = <<>>),
         second \in OneLine \/ (second = <<>> /\ more = <<>>),
         <<w, w>> = first \o (second \o more)
  PROVE  first = second /\ first # <<>>
<1>1. /\ <<w, w>> = <<w>> \o <<w>> /\ <<w>> = <<w>> \o <<>>
      /\ <<w>> # <<>> /\ <<w, w>> # <<>> /\ <<w, w>> # <<w>>
      /\ <<w>> \in Seq(Words) /\ <<>> \in Seq(Words)
  OBVIOUS
<1>2. ASSUME NEW text \in Seq(Words) PROVE text \o <<>> = text /\ <<>> \o text = text
  BY ConcatEmptySeq
<1>3. ASSUME NEW a \in Words PROVE <<a>> # <<w, w>> /\ <<a>> # <<>>
  OBVIOUS
<1>4. first # <<>>
  <2>1. SUFFICES ASSUME first = <<>>, more = <<>> PROVE FALSE
    BY <1>3, Zenon DEF OneLine
  <2>2. <<w, w>> = second
    BY <1>2, <2>1
  <2>. QED
    BY <1>1, <1>3, <2>1, <2>2, Zenon DEF OneLine
<1>5. PICK f \in Words : first = <<f>>
  BY <1>4 DEF OneLine
<1>6. second \o more \in Seq(Words)
  BY ConcatProperties
<1>7. w = f /\ <<w>> = second \o more
  <2>1. PICK rest \in Seq(Words) : rest = second \o more
    BY <1>6
  <2>2. PICK one \in Seq(Words) : one = <<w>>
    BY <1>1
  <2>3. <<w>> \o one = <<f>> \o rest
    BY <1>1, <1>5, <2>1, <2>2, Zenon
  <2>4. w = f /\ one = rest
    BY <2>3, FirstLines
  <2>. QED
    BY <2>1, <2>2, <2>4
<1>8. second # <<>>
  <2>1. SUFFICES ASSUME second = <<>>, more = <<>> PROVE FALSE
    BY <1>3, Zenon DEF OneLine
  <2>2. <<w>> = <<>>
    BY <1>2, <1>7, <2>1, Zenon
  <2>. QED
    BY <1>1, <2>2
<1>9. PICK s \in Words : second = <<s>>
  BY <1>8, Zenon DEF OneLine
<1>10. <<w>> \o <<>> = <<s>> \o more
  BY <1>1, <1>7, <1>9, Zenon
<1>11. w = s
  BY <1>1, <1>10, FirstLines
<1>. QED
  BY <1>4, <1>5, <1>7, <1>9, <1>11, Zenon

\* The documented script is an answer to the first prompt and two lines.
LEMMA DocumentedIs ==
  ASSUME NEW w \in Words
  PROVE  Documented(w) = Old \o <<w, w>>
<1>1. <<w, w>> \in Seq(Words)
  OBVIOUS
<1>2. <<>> \o <<w, w>> = <<w, w>>
  BY <1>1, ConcatEmptySeq
<1>. QED
  BY <1>2 DEF Documented, Old

\* The refusals: at the prompts and in the comparison.
LEMMA RefusalsKept ==
  ASSUME input = "tty", DialogInv, RefusalInv, [Next]_vars
  PROVE  RefusalInv'
<1> USE DEF RefusalInv, asked
<1>0. /\ DialogTypeOK /\ AnswersRead /\ PromptOK
      /\ queue \in Seq(Words) /\ script \in Seq(Words) /\ pending \in Seq(Words)
      /\ stored \in Seq(Words)
  BY DEF DialogInv, DialogTypeOK, pending
<1>1. CASE PromptCurrent
  <2>1. PICK text : /\ ReadLine(text, queue')
                    /\ IF text = stored THEN pc' = "new" /\ result' = result
                       ELSE deny("authentication-failure")
    BY <1>1 DEF PromptCurrent
  <2>2. /\ text \in Seq(Words) /\ pending' \in Seq(Words) /\ pending = text \o pending'
        /\ text \in OneLine \/ (text = <<>> /\ pending' = <<>>)
    <3>1. script' = script
      BY <1>1 DEF PromptCurrent
    <3>. QED
      BY <1>0, <2>1, <3>1, AnswerTakes
  <2>3. /\ pc = "current" /\ given = pending /\ Old = stored /\ stored \in OneLine
        /\ UNCHANGED <<asked, stored, db>>
    BY <1>0, <1>1 DEF PromptCurrent, AnswersRead, PromptOK, LinesStored, Old
  <2>4. ASSUME NEW w \in Words, given = Documented(w)
        PROVE  text = stored
    <3>1. PICK o \in Words : stored = <<o>>
      BY <2>3 DEF OneLine
    <3>2. <<o>> \o <<w, w>> = text \o pending'
      BY <2>2, <2>3, <2>4, <3>1, DocumentedIs, Zenon
    <3>. QED
      BY <2>2, <3>1, <3>2, WrongCurrent
  <2>5. RefusedRightly'
    <3>1. CASE text = stored
      BY <1>0, <2>1, <2>3, <3>1 DEF RefusedRightly, PromptOK
    <3>2. CASE text # stored
      BY <2>3, <2>4, <3>2 DEF RefusedRightly, Documented
    <3>. QED
      BY <3>1, <3>2
  <2>. QED
    BY <2>1, <2>3, <2>5 DEF LinesStored, Results, deny, Old
<1>2. CASE CheckNew
  <2>1. /\ pc = "check" /\ result = "none" /\ UNCHANGED <<asked, stored, db>>
        /\ given = Old \o (new \o (confirm \o pending))
        /\ ALineOrEnd(new) /\ ALineOrEnd(confirm)
        /\ new \in Seq(Words) /\ confirm \in Seq(Words) /\ Old \in Seq(Words)
    <3>1. pc = "check" /\ UNCHANGED <<asked, stored, db>>
      BY <1>2 DEF CheckNew
    <3>2. result = "none" /\ ALineOrEnd(new) /\ ALineOrEnd(confirm)
      BY <1>0, <3>1 DEF PromptOK
    <3>3. given = Old \o (new \o (confirm \o pending))
      BY <1>0, <3>1 DEF AnswersRead
    <3>4. new \in Seq(Words) /\ confirm \in Seq(Words) /\ Old \in Seq(Words)
      BY <1>0 DEF DialogTypeOK, Old
    <3>. QED
      BY <3>1, <3>2, <3>3, <3>4
  <2>2. ASSUME NEW w \in Words, given = Documented(w)
        PROVE  new = confirm /\ new # <<>>
    <3>1. Old \o <<w, w>> = Old \o (new \o (confirm \o pending))
      BY <2>1, <2>2, DocumentedIs, Zenon
    <3>2. /\ <<w, w>> \in Seq(Words) /\ new \o (confirm \o pending) \in Seq(Words)
      BY <1>0, <2>1
    <3>3. \A x, y, z \in Seq(Words) : x \o y = x \o z => y = z
      BY ConcatSimplifications
    <3>4. <<w, w>> = new \o (confirm \o pending)
      BY <2>1, <3>1, <3>2, <3>3, Zenon
    <3>. QED
      BY <1>0, <2>1, <3>4, WrongAnswers DEF ALineOrEnd
  <2>3. \/ pc' = "set" /\ result' = result
        \/ /\ result' \in {"passwords-mismatch", "empty-password"}
           /\ pc' = "exit" /\ (new # confirm \/ new = <<>>)
    BY <1>2 DEF CheckNew, deny
  <2>4. RefusedRightly'
    BY <2>1, <2>2, <2>3 DEF RefusedRightly, Documented
  <2>. QED
    BY <2>1, <2>3, <2>4 DEF LinesStored, Results, Old
<1>3. CASE Start \/ NoShadowEntry
  <2>1. /\ pc = "start" /\ result = "none" /\ UNCHANGED <<asked, db>>
    BY <1>0, <1>3 DEF Start, NoShadowEntry, PromptOK
  <2>2. \/ /\ pc' = "exit" /\ result' = "not-permitted"
           /\ caller \notin {root, target} /\ stored' = stored
        \/ pc' = "exit" /\ result' = "no-shadow-entry" /\ stored' = stored
        \/ pc' = "new" /\ caller = root /\ result' = result /\ stored' = stored
        \/ pc' = "current" /\ caller # root /\ result' = result /\ stored' = db[target]
    BY <1>3 DEF Start, NoShadowEntry, deny
  <2>3. target \in Users
    BY <1>0 DEF DialogTypeOK
  <2>. QED
    BY <2>1, <2>2, <2>3 DEF LinesStored, RefusedRightly, Results, Failures, Old
<1>4. CASE PromptNew \/ PromptConfirm \/ Enter
  BY <1>0, <1>4 DEF PromptNew, PromptConfirm, Enter, PromptOK, LinesStored, RefusedRightly, Results,
                    Documented, Old
<1>5. CASE ReadFails \/ SetHashFails
  BY <1>0, <1>5 DEF ReadFails, SetHashFails, deny, LinesStored, RefusedRightly, Results, Failures
<1>6. CASE SetHash
  <2>1. new \in OneLine
    BY <1>0, <1>6 DEF SetHash, PromptOK, ALineOrEnd
  <2>2. db' = [db EXCEPT ![target] = new] /\ pc' = "exit" /\ result' = "changed"
    BY <1>6 DEF SetHash
  <2>. QED
    BY <1>0, <2>1, <2>2 DEF LinesStored, RefusedRightly, Results, DialogTypeOK
<1>7. CASE OtherChange
  <2>1. UNCHANGED <<asked, pc, stored, result>>
    BY <1>7 DEF OtherChange
  <2>2. PICK u \in Users, w \in Words : db' = [db EXCEPT ![u] = <<w>>]
    BY <1>7 DEF OtherChange
  <2>3. <<w>> \in OneLine
    BY DEF OneLine
  <2>4. \A v \in Users : db'[v] \in OneLine
    BY <1>0, <2>2, <2>3 DEF LinesStored, DialogTypeOK
  <2>. QED
    BY <2>1, <2>4 DEF LinesStored, RefusedRightly, Documented, Old
<1>8. CASE UNCHANGED vars
  BY <1>8 DEF vars, LinesStored, RefusedRightly, Documented, Old
<1>. QED
  BY <1>1, <1>2, <1>3, <1>4, <1>5, <1>6, <1>7, <1>8 DEF Next

\* A refused run is an exit that is neither the change nor a failure.
LEMMA RefusalsSuffice ==
  ASSUME DialogInv, RefusalInv
  PROVE  TypedAheadWorks
<1>1. SUFFICES ASSUME pc = "exit", caller \in {root, target}, NEW w \in Words, given = Documented(w)
               PROVE  result \in {"changed"} \cup Failures
  BY DEF TypedAheadWorks, BatchModeWorks
<1>. QED
  BY <1>1 DEF DialogInv, PromptOK, RefusalInv, RefusedRightly, Results

\* A fact about the dialogue of passwd holds of every program if its steps keep it.
OfPasswd(inv) == IF program = "passwd" THEN inv ELSE pc = "smoke" /\ result = "none"

\* A behavior is about one program, and those that are not passwd change nothing here.
LEMMA ProgramsApart ==
  ASSUME [SmokeNext]_<<vars, smokeVars>>
  PROVE  /\ program' = program
         /\ program = "passwd" => [Next]_vars
         /\ program # "passwd" => UNCHANGED <<pc, result>>
<1>1. program' = program
  BY DEF SmokeNext, SmokeStep, ChildStep, smokeVars, seed_accounts, SeedFails, Fork, ForkFails,
         Poll, Answer, AnswerIf, Reap, Close, WaitChild
<1>. QED
  BY <1>1 DEF SmokeNext, SmokeStep, ChildStep, dialogVars, vars

\* "Current, new, retype": a change that passwd reports was made for somebody who
\* entered the password the account had when passwd read it, unless root, and then
\* the same new one twice, in the first lines of what was typed, ahead or not.
THEOREM ChangesAreEntered ==
  ASSUME Inputs = {"tty"}
  PROVE  SmokeSpec => []ChangeIsEntered
<1>1. SmokeInit => OfPasswd(DialogInv)
  BY DialogInit DEF SmokeInit, OfPasswd
<1>2. OfPasswd(DialogInv) /\ [SmokeNext]_<<vars, smokeVars>> => OfPasswd(DialogInv)'
  <2>1. DialogInv => input = "tty"
    BY DEF DialogInv, DialogTypeOK
  <2>. QED
    BY <2>1, ProgramsApart, DialogKept DEF OfPasswd
<1>3. OfPasswd(DialogInv) => ChangeIsEntered
  BY DEF OfPasswd, DialogInv, ChangeIsEntered
<1>. QED
  BY <1>1, <1>2, <1>3, PTL DEF SmokeSpec

\* "old, new, confirm (only new, confirm for root)": on a terminal such a script, all
\* of it typed ahead of the prompts if need be, makes the change it asks for, whatever
\* other runs do, if the old password is still right in the end. The passwords of the
\* image are lines.
THEOREM TypedAheadIsTaken ==
  ASSUME Inputs = {"tty"}, \A u \in Users : InitDb[u] \in OneLine
  PROVE  SmokeSpec => []TypedAheadWorks
<1>1. SmokeInit => OfPasswd(DialogInv /\ RefusalInv)
  BY DialogInit DEF SmokeInit, Init, OfPasswd, RefusalInv, LinesStored, RefusedRightly, Results
<1>2. OfPasswd(DialogInv /\ RefusalInv) /\ [SmokeNext]_<<vars, smokeVars>>
        => OfPasswd(DialogInv /\ RefusalInv)'
  <2>1. DialogInv => input = "tty"
    BY DEF DialogInv, DialogTypeOK
  <2>. QED
    BY <2>1, ProgramsApart, DialogKept, RefusalsKept DEF OfPasswd
<1>3. OfPasswd(DialogInv /\ RefusalInv) => TypedAheadWorks
  BY RefusalsSuffice DEF OfPasswd, TypedAheadWorks, BatchModeWorks
<1>. QED
  BY <1>1, <1>2, <1>3, PTL DEF SmokeSpec

-----------------------------------------------------------------------------
(* sudo and doas: the inductive invariant                                  *)

\* What the smoke enters, as often as it is asked.
Entered == IF given = <<good>> THEN good ELSE bad

Output == Seq({"prompt", "text"})
printed == capture \o out

SmokeTypeOK ==
  /\ given \in SmokeScripts
  /\ script \in Seq({Entered}) /\ queue \in Seq({Entered})
  /\ out \in Output /\ capture \in Output
  /\ answered \in Nat
  /\ smoke \in {"seed", "failed", "fork", "poll", "answer", "reap", "close", "wait", "done"}
  /\ prog \in {"none", "begin", "flush", "read", "command", "ended"}
  /\ db \in [Users -> Seq(Words)]

\* The seed has seen to the password and to wheel before there is a child.
SeedOK ==
  /\ smoke \in {"seed", "fork", "failed"} => prog = "none"
  /\ smoke \notin {"seed", "failed"} =>
       db[tester] = <<good>> /\ ir0_user_in_group(tester, "wheel")
  /\ prog \notin {"none", "ended"} => gids = ir0_group_list(groups, tester, TesterGid)
  /\ smoke = "answer" => script # <<>>

\* A prompt for each line taken, and one more while the child waits; a line was
\* entered only for a prompt that was read.
PromptsMatch ==
  /\ answered <= PromptsIn(capture)
  /\ prog # "ended" =>
       PromptsIn(printed) = (answered - Len(queue)) + (IF prog = "read" THEN 1 ELSE 0)
  /\ ~discarded

\* The array of the groups was not full before wheel.
WheelListed ==
  \A i \in DOMAIN groups :
    groups[i].name = "wheel" /\ tester \in groups[i].members
      => Contains(ir0_group_list(groups, tester, TesterGid), groups[i].gid)

\* Who is let in entered the right password, and who enters it is let in.
StatusOK ==
  /\ prog = "command" \/ status = 0 \/ ec = 0 => given = <<good>>
  /\ given = <<good>> /\ WheelListed /\ ~excused =>
       /\ prog = "ended" => status = 0
       /\ smoke = "done" => ec = 0
  /\ reaped \/ (smoke \in {"close", "wait", "done"} /\ ~excused) => prog = "ended"

SmokeInv == SmokeTypeOK /\ SeedOK /\ PromptsMatch /\ StatusOK

\* Where the prompts are in some output.
Prompted(text) == {i \in DOMAIN text : text[i] = "prompt"}

LEMMA PromptsFinite ==
  ASSUME NEW text \in Output
  PROVE  /\ IsFiniteSet(Prompted(text)) /\ PromptsIn(text) = Cardinality(Prompted(text))
         /\ PromptsIn(text) \in Nat
<1>1. DOMAIN text = 1..Len(text) /\ Len(text) \in Nat
  BY DEF Output
<1>2. IsFiniteSet(DOMAIN text)
  BY <1>1, FS_Interval
<1>3. Prompted(text) \in SUBSET DOMAIN text
  BY DEF Prompted
<1>4. IsFiniteSet(Prompted(text))
  BY <1>2, <1>3, FS_Subset
<1>5. PromptsIn(text) = Cardinality(Prompted(text))
  BY DEF PromptsIn, Prompted
<1>. QED
  BY <1>4, <1>5, FS_CardinalityType

\* One more for a prompt, and none for other output.
LEMMA PromptsAppend ==
  ASSUME NEW text \in Output
  PROVE  /\ PromptsIn(Append(text, "prompt")) = PromptsIn(text) + 1
         /\ PromptsIn(Append(text, "text")) = PromptsIn(text)
<1>1. IsFiniteSet(Prompted(text)) /\ PromptsIn(text) = Cardinality(Prompted(text))
  BY PromptsFinite
<1>2. Len(text) + 1 \notin Prompted(text)
  BY DEF Prompted, Output
<1>3. Prompted(Append(text, "prompt")) = Prompted(text) \cup {Len(text) + 1}
  BY DEF Prompted, Output
<1>4. Prompted(Append(text, "text")) = Prompted(text)
  BY DEF Prompted, Output
<1>5. /\ PromptsIn(Append(text, "prompt")) = Cardinality(Prompted(Append(text, "prompt")))
      /\ PromptsIn(Append(text, "text")) = Cardinality(Prompted(Append(text, "text")))
  BY DEF PromptsIn, Prompted
<1>6. Cardinality(Prompted(text) \cup {Len(text) + 1}) = Cardinality(Prompted(text)) + 1
  BY <1>1, <1>2, FS_AddElement
<1>. QED
  BY <1>1, <1>3, <1>4, <1>5, <1>6

\* What was read first has no more of them than the whole.
LEMMA PromptsRead ==
  ASSUME NEW first \in Output, NEW later \in Output
  PROVE  PromptsIn(first) <= PromptsIn(first \o later)
<1>1. first \o later \in Output
  BY DEF Output
<1>2. Prompted(first) \in SUBSET Prompted(first \o later)
  BY DEF Prompted, Output
<1>3. IsFiniteSet(Prompted(first \o later))
  BY <1>1, PromptsFinite
<1>. QED
  BY <1>1, <1>2, <1>3, FS_Subset, PromptsFinite

-----------------------------------------------------------------------------
(* sudo and doas: the steps                                                *)

LEMMA SmokeStarts ==
  ASSUME SmokeInit, program # "passwd"
  PROVE  SmokeInv
<1>1. /\ given \in SmokeScripts /\ script = given /\ queue = <<>> /\ out = <<>> /\ capture = <<>>
      /\ smoke = "seed" /\ prog = "none" /\ answered = 0 /\ db = InitDb /\ ~reaped /\ ~discarded
      /\ status # 0 /\ ec # 0
  BY DEF SmokeInit, Running
<1>2. given \in Seq({Entered})
  <2>1. CASE given = <<good>>
    BY <2>1 DEF Entered
  <2>2. CASE given # <<good>>
    <3>1. given = [i \in 1..Tries |-> bad] /\ Tries \in Nat
      BY <1>1, <2>2 DEF SmokeScripts, Tries
    <3>. QED
      BY <2>2, <3>1 DEF Entered
  <2>. QED
    BY <2>1, <2>2
<1>3. SmokeTypeOK
  BY <1>1, <1>2, InitDbAssumption DEF SmokeTypeOK, Output
<1>4. PromptsMatch
  <2>1. <<>> \in Output /\ Prompted(<<>>) = {} /\ printed = <<>>
    BY <1>1 DEF Output, Prompted, printed
  <2>2. PromptsIn(<<>>) = 0
    BY <2>1, PromptsFinite, FS_EmptySet
  <2>. QED
    BY <1>1, <2>1, <2>2 DEF PromptsMatch
<1>. QED
  BY <1>1, <1>3, <1>4 DEF SmokeInv, SeedOK, StatusOK

\* A behavior is about one program, one /etc/group and one script of answers.
LEMMA SmokeSettled ==
  ASSUME program # "passwd", SmokeStep \/ ChildStep
  PROVE  /\ program' = program /\ groups' = groups /\ given' = given
         /\ Entered' = Entered /\ SmokeScripts' = SmokeScripts /\ WheelListed' = WheelListed
         /\ ir0_user_in_group(tester, "wheel")' = ir0_user_in_group(tester, "wheel")
<1>1. program' = program /\ groups' = groups /\ given' = given
  BY DEF SmokeStep, ChildStep, seed_accounts, SeedFails, Fork, ForkFails, Poll, Answer, AnswerIf,
         Reap, Close, WaitChild, dialogVars, asked
<1>. QED
  BY <1>1 DEF Entered, SmokeScripts, Tries, WheelListed, ir0_user_in_group

\* Types.
LEMMA SmokeTypesKept ==
  ASSUME SmokeInv, program # "passwd", SmokeStep \/ ChildStep
  PROVE  SmokeTypeOK'
<1>0. SmokeTypeOK /\ SeedOK
  BY DEF SmokeInv
<1>1. given' \in SmokeScripts' /\ Entered' = Entered
  BY <1>0, SmokeSettled DEF SmokeTypeOK
<1>2. script' \in Seq({Entered}) /\ queue' \in Seq({Entered})
  <2>1. CASE Answer
    <3>1. script \in Seq({Entered}) /\ script # <<>> /\ queue \in Seq({Entered})
      BY <1>0, <2>1 DEF SmokeTypeOK, SeedOK, Answer, AnswerIf
    <3>2. Head(script) \in {Entered} /\ Tail(script) \in Seq({Entered})
      BY <3>1
    <3>3. Append(queue, Head(script)) \in Seq({Entered})
      BY <3>1, <3>2
    <3>. QED
      BY <2>1, <3>1, <3>2, <3>3 DEF Answer, AnswerIf
  <2>2. CASE ChildStep
    <3>1. /\ script \in Seq({Entered}) /\ queue \in Seq({Entered})
          /\ queue # <<>> => Tail(queue) \in Seq({Entered})
      BY <1>0 DEF SmokeTypeOK
    <3>2. queue' \in {queue, <<>>} \/ (queue # <<>> /\ queue' = Tail(queue))
      BY <2>2 DEF ChildStep, Begin, Prompt, Judge, Command, HangUp
    <3>3. script' = script /\ <<>> \in Seq({Entered})
      BY <2>2 DEF ChildStep
    <3>4. queue' \in Seq({Entered})
      BY <3>1, <3>2, <3>3, Zenon
    <3>. QED
      BY <3>1, <3>3, <3>4
  <2>3. CASE SmokeStep /\ ~Answer
    BY <1>0, <2>3 DEF SmokeTypeOK, SmokeStep, seed_accounts, SeedFails, Fork, ForkFails, Poll,
       Reap, Close, WaitChild, dialog
  <2>. QED
    BY <2>1, <2>2, <2>3
<1>3. out' \in Output /\ capture' \in Output
  <2>1. CASE Poll
    <3>1. \A n \in 0..Len(out) : SubSeq(out, 1, n) \in Output /\ SubSeq(out, n + 1, Len(out)) \in Output
      BY <1>0 DEF SmokeTypeOK, Output
    <3>2. \A n \in 0..Len(out) : capture \o SubSeq(out, 1, n) \in Output
      BY <1>0, <3>1 DEF SmokeTypeOK, Output
    <3>3. out \in Output /\ capture \in Output
      BY <1>0 DEF SmokeTypeOK
    <3>. QED
      BY <2>1, <3>1, <3>2, <3>3 DEF Poll
  <2>2. CASE ChildStep
    <3>1. /\ out \in Output /\ capture \in Output
          /\ Append(out, "prompt") \in Output /\ Append(out, "text") \in Output
      BY <1>0 DEF SmokeTypeOK, Output
    <3>2. out' \in {out, Append(out, "prompt"), Append(out, "text")} /\ capture' = capture
      BY <2>2 DEF ChildStep, driverVars, Begin, Prompt, Judge, Command, HangUp
    <3>. QED
      BY <3>1, <3>2
  <2>3. CASE SmokeStep /\ ~Poll
    BY <1>0, <2>3 DEF SmokeTypeOK, SmokeStep, seed_accounts, SeedFails, Fork, ForkFails,
       Answer, AnswerIf, Reap, Close, WaitChild, childVars
  <2>. QED
    BY <2>1, <2>2, <2>3
<1>4. answered' \in Nat
  BY <1>0 DEF SmokeTypeOK, SmokeStep, ChildStep, seed_accounts, SeedFails, Fork, ForkFails, Poll,
     Answer, AnswerIf, Reap, Close, WaitChild, driverVars
<1>5. smoke' \in {"seed", "failed", "fork", "poll", "answer", "reap", "close", "wait", "done"}
  BY <1>0 DEF SmokeTypeOK, SmokeStep, ChildStep, seed_accounts, SeedFails, Fork, ForkFails, Poll,
     Answer, AnswerIf, Reap, Close, WaitChild, driverVars
<1>6. prog' \in {"none", "begin", "flush", "read", "command", "ended"}
  BY <1>0 DEF SmokeTypeOK, SmokeStep, ChildStep, seed_accounts, SeedFails, Fork, ForkFails, Poll,
     Answer, AnswerIf, Reap, Close, WaitChild, childVars, Begin, Prompt, Judge, Command, HangUp, Exit
<1>7. db' \in [Users -> Seq(Words)]
  <2>1. db \in [Users -> Seq(Words)] /\ <<good>> \in Seq(Words)
    BY <1>0, TesterAssumption DEF SmokeTypeOK
  <2>2. db' \in {db, [db EXCEPT ![tester] = <<good>>]}
    BY DEF SmokeStep, ChildStep, seed_accounts, SeedFails, Fork, ForkFails, Poll, Answer, AnswerIf,
       Reap, Close, WaitChild, dialog
  <2>. QED
    BY <2>1, <2>2
<1>. QED
  BY <1>1, <1>2, <1>3, <1>4, <1>5, <1>6, <1>7 DEF SmokeTypeOK

\* The seed is done before there is a child, and nothing undoes it.
LEMMA SeedKept ==
  ASSUME SmokeInv, program # "passwd", SmokeStep \/ ChildStep
  PROVE  SeedOK'
<1>0. SmokeTypeOK /\ SeedOK
  BY DEF SmokeInv
<1>1. CASE seed_accounts
  <2>1. db'[tester] = <<good>> /\ prog' = "none" /\ smoke' \in {"fork", "failed"}
    BY <1>0, <1>1, TesterAssumption DEF SmokeTypeOK, SeedOK, seed_accounts, childVars
  <2>2. smoke' = "fork" => ir0_user_in_group(tester, "wheel")
    BY <1>1 DEF seed_accounts
  <2>. QED
    BY <2>1, <2>2, SmokeSettled DEF SeedOK
<1>2. CASE Fork
  <2>1. /\ smoke = "fork" /\ smoke' = "poll" /\ db' = db
        /\ prog' # "none" /\ gids' = ir0_group_list(groups, tester, TesterGid)
    BY <1>2 DEF Fork, dialog
  <2>. QED
    BY <1>0, <2>1, SmokeSettled DEF SeedOK
<1>3. CASE SmokeStep /\ ~seed_accounts /\ ~Fork
  <2>1. /\ db' = db /\ prog' = prog /\ gids' = gids
        /\ smoke' \in {"seed", "fork"} => smoke' = smoke
        /\ smoke \in {"seed", "failed"} => smoke' = "failed"
        /\ smoke' = "failed" => smoke = "seed"
        /\ smoke' = "answer" => script' # <<>>
    BY <1>3 DEF SmokeStep, SeedFails, ForkFails, Poll, Answer, AnswerIf, Reap, Close, WaitChild,
       childVars, dialog
  <2>. QED
    BY <1>0, <2>1, SmokeSettled DEF SeedOK
<1>4. CASE ChildStep
  <2>1. db' = db /\ smoke' = smoke /\ gids' = gids /\ script' = script
    BY <1>4 DEF ChildStep, driverVars, Begin, Prompt, Judge, Command, HangUp
  <2>2. prog \notin {"none", "ended"}
    BY <1>4 DEF ChildStep, Begin, Prompt, Judge, Command, HangUp
  <2>. QED
    BY <1>0, <2>1, <2>2, SmokeSettled DEF SeedOK
<1>. QED
  BY <1>1, <1>2, <1>3, <1>4

\* What the smoke reads is what the child has printed.
LEMMA PollReads ==
  ASSUME SmokeTypeOK, Poll
  PROVE  printed' = printed /\ PromptsIn(capture) <= PromptsIn(capture')
<1>1. out \in Output /\ capture \in Output
  BY DEF SmokeTypeOK
<1>2. CASE capture' = capture /\ out' = out
  BY <1>1, <1>2, PromptsFinite DEF printed
<1>3. CASE ~(capture' = capture /\ out' = out)
  <2>1. PICK n \in 0..Len(out) : /\ capture' = capture \o SubSeq(out, 1, n)
                                 /\ out' = SubSeq(out, n + 1, Len(out))
    BY <1>3 DEF Poll
  <2>2. SubSeq(out, 1, n) \in Output /\ SubSeq(out, n + 1, Len(out)) \in Output
    BY <1>1, FrontAndRest DEF Output
  <2>3. SubSeq(out, 1, n) \o SubSeq(out, n + 1, Len(out)) = out
    BY <1>1, FrontAndRest DEF Output
  <2>4. (capture \o SubSeq(out, 1, n)) \o SubSeq(out, n + 1, Len(out))
          = capture \o (SubSeq(out, 1, n) \o SubSeq(out, n + 1, Len(out)))
    <3>1. \A s, t, u \in Output : (s \o t) \o u = s \o (t \o u)
      BY ConcatAssociative DEF Output
    <3>. QED
      BY <1>1, <2>2, <3>1, Zenon
  <2>5. PromptsIn(capture) <= PromptsIn(capture \o SubSeq(out, 1, n))
    BY <1>1, <2>2, PromptsRead
  <2>. QED
    BY <2>1, <2>3, <2>4, <2>5 DEF printed
<1>. QED
  BY <1>2, <1>3

\* A line is entered for a prompt that was read and not answered, so none is waiting
\* when the child prompts again.
LEMMA PromptsKept ==
  ASSUME SmokeInv, program # "passwd", SmokeStep \/ ChildStep
  PROVE  PromptsMatch'
<1>0. SmokeTypeOK /\ SeedOK /\ PromptsMatch
  BY DEF SmokeInv
<1>1. /\ out \in Output /\ capture \in Output /\ printed \in Output
      /\ answered \in Nat /\ Len(queue) \in Nat
  BY <1>0 DEF SmokeTypeOK, printed, Output
<1>2. /\ PromptsIn(capture) \in Nat /\ PromptsIn(printed) \in Nat
      /\ PromptsIn(capture) <= PromptsIn(printed)
  BY <1>1, PromptsFinite, PromptsRead DEF printed
<1>3. CASE Poll
  <2>1. printed' = printed /\ PromptsIn(capture) <= PromptsIn(capture')
    BY <1>0, <1>3, PollReads
  <2>2. PromptsIn(capture') \in Nat
    BY SmokeTypesKept, PromptsFinite DEF SmokeTypeOK
  <2>3. answered' = answered /\ queue' = queue /\ prog' = prog /\ discarded' = discarded
    BY <1>3 DEF Poll, dialog
  <2>4. answered <= PromptsIn(capture')
    BY <1>0, <1>1, <1>2, <2>1, <2>2 DEF PromptsMatch
  <2>. QED
    BY <1>0, <2>1, <2>3, <2>4 DEF PromptsMatch
<1>4. CASE Answer
  <2>1. /\ capture' = capture /\ out' = out /\ printed' = printed
        /\ prog' = prog /\ discarded' = discarded
    BY <1>4 DEF Answer, AnswerIf, childVars, printed
  <2>2. \/ queue' = queue /\ answered' = answered
        \/ /\ PromptsIn(capture) > answered /\ answered' = answered + 1
           /\ queue' = Append(queue, Head(script))
    BY <1>4 DEF Answer, AnswerIf
  <2>3. queue' = Append(queue, Head(script)) => Len(queue') = Len(queue) + 1
    BY <1>0 DEF SmokeTypeOK
  <2>. QED
    BY <1>0, <1>1, <1>2, <2>1, <2>2, <2>3 DEF PromptsMatch
<1>5. CASE SmokeStep /\ ~Poll /\ ~Answer
  <2>1. /\ capture' = capture /\ printed' = printed
        /\ answered' = answered /\ queue' = queue /\ discarded' = discarded
    BY <1>5 DEF SmokeStep, seed_accounts, SeedFails, Fork, ForkFails, Reap, Close, WaitChild,
       childVars, dialog, printed
  <2>2. prog' = prog \/ (prog = "none" /\ prog' \in {"begin", "ended"})
    <3>1. CASE Fork
      BY <1>0, <3>1 DEF SeedOK, Fork
    <3>2. CASE ~Fork
      BY <1>5, <3>2 DEF SmokeStep, seed_accounts, SeedFails, ForkFails, Reap, Close, WaitChild,
         childVars
    <3>. QED
      BY <3>1, <3>2
  <2>. QED
    BY <1>0, <2>1, <2>2 DEF PromptsMatch
<1>6. CASE ChildStep /\ Prompt
  <2>1. /\ capture' = capture /\ out' = Append(out, "prompt") /\ queue' = <<>>
        /\ answered' = answered /\ prog = "flush" /\ prog' = "read"
        /\ discarded' = (discarded \/ queue # <<>>)
    BY <1>6 DEF ChildStep, Prompt, driverVars
  <2>2. queue = <<>>
    <3>1. Len(queue) = 0
      BY <1>0, <1>1, <1>2, <2>1 DEF PromptsMatch
    <3>. QED
      BY <1>0, <3>1 DEF SmokeTypeOK
  <2>3. printed' = Append(printed, "prompt")
    BY <1>1, <2>1 DEF printed, Output
  <2>4. PromptsIn(printed') = PromptsIn(printed) + 1
    BY <1>1, <2>3, PromptsAppend
  <2>5. answered = PromptsIn(printed) /\ Len(queue') = 0
    BY <1>0, <1>1, <1>2, <2>1, <2>2 DEF PromptsMatch
  <2>6. ~discarded'
    BY <1>0, <2>1, <2>2 DEF PromptsMatch
  <2>. QED
    BY <1>0, <1>1, <1>2, <2>1, <2>4, <2>5, <2>6 DEF PromptsMatch
<1>7. CASE ChildStep /\ Judge
  <2>1. /\ capture' = capture /\ out' = Append(out, "text") /\ queue' = Tail(queue) /\ queue # <<>>
        /\ answered' = answered /\ prog = "read" /\ prog' \in {"command", "flush", "ended"}
        /\ discarded' = discarded
    BY <1>7 DEF ChildStep, Judge, driverVars, Exit
  <2>2. printed' = Append(printed, "text")
    BY <1>1, <2>1 DEF printed, Output
  <2>3. PromptsIn(printed') = PromptsIn(printed)
    BY <1>1, <2>2, PromptsAppend
  <2>4. Len(queue') = Len(queue) - 1
    BY <1>0, <2>1 DEF SmokeTypeOK
  <2>. QED
    BY <1>0, <1>1, <1>2, <2>1, <2>3, <2>4 DEF PromptsMatch
<1>8. CASE ChildStep /\ (Begin \/ Command \/ HangUp)
  <2>1. /\ capture' = capture /\ out' = out /\ queue' = queue /\ discarded' = discarded
        /\ answered' = answered /\ ((prog = "begin" /\ prog' = "flush") \/ prog' = "ended")
    BY <1>8 DEF ChildStep, Begin, Command, HangUp, driverVars, Exit
  <2>. QED
    BY <1>0, <2>1 DEF PromptsMatch, printed
<1>. QED
  BY <1>3, <1>4, <1>5, <1>6, <1>7, <1>8 DEF ChildStep

\* The child ends well for the right password alone, and for it always, unless a call
\* fails; and the terminal is not closed before it ends, unless the deadline comes.
LEMMA StatusKept ==
  ASSUME SmokeInv, program # "passwd", SmokeStep \/ ChildStep
  PROVE  StatusOK'
<1>0. SmokeTypeOK /\ SeedOK /\ StatusOK
  BY DEF SmokeInv
<1>1. given' = given /\ WheelListed' = WheelListed
  BY SmokeSettled
<1>2. CASE SmokeStep /\ ~Fork
  <2>1. prog' = prog /\ status' = status
    BY <1>2 DEF SmokeStep, seed_accounts, SeedFails, ForkFails, Poll, Answer, AnswerIf, Reap, Close,
       WaitChild, childVars
  <2>2. excused => excused'
    BY <1>2 DEF SmokeStep, seed_accounts, SeedFails, ForkFails, Poll, Answer, AnswerIf, Reap, Close,
       WaitChild
  <2>3. reaped' => reaped \/ prog = "ended"
    BY <1>2 DEF SmokeStep, seed_accounts, SeedFails, ForkFails, Poll, Answer, AnswerIf, Reap, Close,
       WaitChild
  <2>4. /\ ec' # ec => (smoke = "fork" /\ ec' = 1 /\ excused') \/ WaitChild
        /\ smoke' = "done" => excused' \/ WaitChild
        /\ smoke' \in {"close", "wait"} /\ ~excused' => smoke = "close" \/ prog = "ended"
    BY <1>2 DEF SmokeStep, seed_accounts, SeedFails, ForkFails, Poll, Answer, AnswerIf, Reap, Close,
       WaitChild
  <2>5. WaitChild => ec' = status /\ prog = "ended" /\ excused' = excused
    BY <1>0 DEF WaitChild, StatusOK
  <2>. QED
    BY <1>0, <1>1, <2>1, <2>2, <2>3, <2>4, <2>5 DEF StatusOK
<1>3. CASE Fork
  <2>1. /\ smoke = "fork" /\ smoke' = "poll" /\ ec' = ec /\ reaped' = reaped
        /\ \/ prog' = "begin" /\ status' = status /\ excused' = excused
           \/ prog' = "ended" /\ status' = 1 /\ excused'
    BY <1>3 DEF Fork
  <2>2. prog = "none"
    BY <1>0, <2>1 DEF SeedOK
  <2>. QED
    BY <1>0, <1>1, <2>1, <2>2 DEF StatusOK
<1>4. CASE ChildStep
  <2>1. smoke' = smoke /\ ec' = ec /\ reaped' = reaped /\ excused' = excused
    BY <1>4 DEF ChildStep, driverVars
  <2>2. prog \notin {"none", "ended"}
    BY <1>4 DEF ChildStep, Begin, Prompt, Judge, Command, HangUp
  <2>3. /\ db[tester] = <<good>> /\ ir0_user_in_group(tester, "wheel")
        /\ gids = ir0_group_list(groups, tester, TesterGid)
        /\ ~reaped /\ (smoke \notin {"close", "wait", "done"} \/ excused)
    BY <1>0, <2>2 DEF SmokeTypeOK, SeedOK, StatusOK
  <2>4. WheelListed => HasWheel
    BY <2>3 DEF WheelListed, HasWheel, ir0_user_in_group
  <2>5. CASE Begin \/ Prompt
    <3>1. \/ prog' \in {"flush", "read"} /\ status' = status
          \/ prog' = "ended" /\ status' = 1 /\ ~HasWheel
      BY <2>5 DEF Begin, Prompt, Exit
    <3>. QED
      BY <1>0, <1>1, <2>1, <2>3, <2>4, <3>1 DEF StatusOK
  <2>6. CASE Judge
    <3>1. Head(queue) = Entered
      BY <1>0, <2>6 DEF SmokeTypeOK, Judge
    <3>2. \/ prog' = "command" /\ status' = status /\ <<Entered>> = <<good>>
          \/ /\ ~(<<Entered>> = <<good>> /\ HasWheel)
             /\ \/ prog' = "flush" /\ status' = status
                \/ prog' = "ended" /\ status' = 1
      BY <2>3, <2>6, <3>1 DEF Judge, Exit
    <3>3. <<Entered>> = <<good>> <=> given = <<good>>
      BY TesterAssumption DEF Entered
    <3>. QED
      BY <1>0, <1>1, <2>1, <2>3, <2>4, <3>2, <3>3 DEF StatusOK
  <2>7. CASE Command
    BY <1>0, <1>1, <2>1, <2>3, <2>7 DEF StatusOK, Command, Exit
  <2>8. CASE HangUp
    BY <1>0, <1>1, <2>1, <2>3, <2>8 DEF StatusOK, HangUp, Exit, HungUp
  <2>. QED
    BY <1>4, <2>5, <2>6, <2>7, <2>8 DEF ChildStep
<1>. QED
  BY <1>2, <1>3, <1>4

LEMMA SmokeKept ==
  ASSUME SmokeInv, program # "passwd", [SmokeNext]_<<vars, smokeVars>>
  PROVE  SmokeInv' /\ program' = program
<1>1. CASE SmokeStep \/ ChildStep
  BY <1>1, SmokeTypesKept, SeedKept, PromptsKept, StatusKept, SmokeSettled DEF SmokeInv
<1>2. CASE UNCHANGED <<vars, smokeVars>>
  BY <1>2 DEF SmokeInv, SmokeTypeOK, SeedOK, PromptsMatch, StatusOK, vars, asked, smokeVars,
     childVars, driverVars, Entered, SmokeScripts, Tries, WheelListed, ir0_user_in_group, printed
<1>. QED
  BY <1>1, <1>2 DEF SmokeNext

LEMMA SmokeInvariant == SmokeSpec => [](program # "passwd" => SmokeInv)
<1>1. SmokeInit => (program # "passwd" => SmokeInv)
  BY SmokeStarts
<1>2. (program # "passwd" => SmokeInv) /\ [SmokeNext]_<<vars, smokeVars>>
        => (program # "passwd" => SmokeInv)'
  BY SmokeKept, ProgramsApart
<1>. QED
  BY <1>1, <1>2, PTL DEF SmokeSpec

-----------------------------------------------------------------------------
(* sudo and doas: the theorems                                             *)

\* "readpassphrase(TCSAFLUSH) discards typeahead by design. Feed credentials only after
\* the upstream prompt appears": no answer of run_sudo or run_doas is ever discarded,
\* however its reads, the output of the program and the deadline fall.
THEOREM AnswersAreRead ==
  SmokeSpec => [](program # "passwd" => ~discarded)
<1>1. (program # "passwd" => SmokeInv) => (program # "passwd" => ~discarded)
  BY DEF SmokeInv, PromptsMatch
<1>. QED
  BY <1>1, SmokeInvariant, PTL

\* A smoke sees exit status 0 only if what it entered was the right password.
THEOREM WrongIsRefused ==
  SmokeSpec => [](program # "passwd" /\ ec = 0 => given = <<good>>)
<1>1. (program # "passwd" => SmokeInv) => (program # "passwd" /\ ec = 0 => given = <<good>>)
  BY DEF SmokeInv, StatusOK
<1>. QED
  BY <1>1, SmokeInvariant, PTL

\* A smoke that has come to its end has judged rightly: what SmokeReturns promises of
\* the end, for any /etc/group whose entry of wheel ir0_group_list gets to before its
\* array is full.
THEOREM EndsAreJudgedRightly ==
  SmokeSpec => [](program # "passwd" /\ smoke = "done" /\ WheelListed => JudgedRightly)
<1>1. (program # "passwd" => SmokeInv)
        => (program # "passwd" /\ smoke = "done" /\ WheelListed => JudgedRightly)
  BY DEF SmokeInv, PromptsMatch, StatusOK, JudgedRightly
<1>. QED
  BY <1>1, SmokeInvariant, PTL

=============================================================================
