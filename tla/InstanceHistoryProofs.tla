----------------------- MODULE InstanceHistoryProofs -----------------------
(***************************************************************************)
(* What holds of CommandManager for every set of commands and documents,   *)
(* every MaxUndoDepth and every MaxStateId, and of the editor's history    *)
(* for every catalog and every set of projects that keep the rules when    *)
(* opened.                                                                 *)
(*                                                                         *)
(* The first part is about CommandManager alone and asks of the commands   *)
(* no more than CommandManagerAssumption.  Three invariants, each resting  *)
(* on the one before:                                                      *)
(*   TypeInv   types, and every id on a stack has been minted;             *)
(*   HistoryBounded                                                        *)
(*   Sound     each entry's command knows the way between what its two ids *)
(*             were minted for; for commands that are reversible.          *)
(*                                                                         *)
(* The second part is about the instance commands:                         *)
(*   1. they are reversible, which the first part asks of the commands of  *)
(*      a history;                                                         *)
(*   2. the rules of a record list (ids are unique, limits are kept) hold  *)
(*      of the content of every state id ever minted, which is the         *)
(*      invariant that carries them through undo and redo;                 *)
(*   3. the selection is of an instance that exists.                       *)
(***************************************************************************)
EXTENDS InstanceHistory, InstanceCommandsProofs, SequenceTheorems, TLAPS

-----------------------------------------------------------------------------
(* Any commands.                                                           *)

(* Ids on the stacks have been minted: undo and redo never go to an id     *)
(* that executeCommand will give to another state later.                   *)
MintedEntry(n) == [command: Command, before: 0 .. n - 1, after: 0 .. n - 1]

TypeInv ==
  /\ TypeOK
  /\ undoStack \in Seq(MintedEntry(nextStateId))
  /\ redoStack \in Seq(MintedEntry(nextStateId))

-----------------------------------------------------------------------------
(* Trimming keeps the newest entries: what is left are the last            *)
(* MaxUndoDepth of them, in their order, and the top is kept.              *)
LEMMA TrimKeepsNewest ==
  ASSUME NEW S, NEW s \in Seq(S)
  PROVE  /\ Trim(s) \in Seq(S)
         /\ Len(Trim(s)) <= Len(s)
         /\ Len(Trim(s)) <= MaxUndoDepth
         /\ Len(s) <= MaxUndoDepth => Trim(s) = s
         /\ s # <<>> => Trim(s) # <<>>
         /\ \A i \in 1 .. Len(Trim(s)) : Trim(s)[i] = s[i + (Len(s) - Len(Trim(s)))]
<1>0. MaxUndoDepth \in Nat \ {0} /\ Len(s) \in Nat
  BY CommandManagerAssumption, LenProperties
<1>1. CASE Len(s) <= MaxUndoDepth
  <2>1. Trim(s) = s
    BY <1>0, <1>1 DEF Trim
  <2> QED BY <1>0, <1>1, <2>1
<1>2. CASE Len(s) > MaxUndoDepth
  <2> DEFINE m == Len(s) - MaxUndoDepth + 1
  <2>1. Trim(s) = SubSeq(s, m, Len(s))
    BY <1>0, <1>2 DEF Trim
  <2>2. m \in 1 .. Len(s) /\ \A i \in m .. Len(s) : s[i] \in S
    BY <1>0, <1>2, ElementOfSeq
  <2>3. /\ SubSeq(s, m, Len(s)) \in Seq(S)
        /\ Len(SubSeq(s, m, Len(s))) = Len(s) - m + 1
        /\ \A i \in 1 .. Len(s) - m + 1 : SubSeq(s, m, Len(s))[i] = s[m + i - 1]
    BY <1>0, <2>2, SubSeqProperties
  <2>4. Len(Trim(s)) = MaxUndoDepth
    BY <1>0, <2>1, <2>3
  <2>5. \A i \in 1 .. Len(Trim(s)) : Trim(s)[i] = s[i + (Len(s) - Len(Trim(s)))]
    BY <1>0, <2>1, <2>3, <2>4
  <2>6. Trim(s) # <<>>
    BY <1>0, <2>4, EmptySeq
  <2> QED BY <1>0, <1>2, <2>1, <2>3, <2>4, <2>5, <2>6
<1> QED BY <1>0, <1>1, <1>2

(* Popping a stack that is not empty drops the top and nothing else.       *)
LEMMA PopDropsTop ==
  ASSUME NEW S, NEW s \in Seq(S), s # <<>>
  PROVE  /\ Len(s) \in Nat \ {0}
         /\ Top(s) \in S
         /\ Pop(s) \in Seq(S)
         /\ Len(Pop(s)) = Len(s) - 1
         /\ \A i \in 1 .. Len(Pop(s)) : Pop(s)[i] = s[i]
<1>1. PICK n \in Nat : n = Len(s) /\ n >= 1
  BY EmptySeq
<1>2. Top(s) \in S
  BY <1>1, ElementOfSeq DEF Top
<1>3. \A i \in 1 .. n - 1 : s[i] \in S
  BY <1>1, ElementOfSeq
<1>4. /\ SubSeq(s, 1, n - 1) \in Seq(S)
      /\ Len(SubSeq(s, 1, n - 1)) = IF 1 <= n - 1 THEN n - 1 - 1 + 1 ELSE 0
      /\ \A i \in 1 .. n - 1 - 1 + 1 : SubSeq(s, 1, n - 1)[i] = s[1 + i - 1]
  BY <1>1, <1>3, SubSeqProperties
<1>5. Pop(s) = SubSeq(s, 1, n - 1)
  BY <1>1 DEF Pop
<1> HIDE DEF Pop
<1>6. Len(Pop(s)) = n - 1
  BY <1>1, <1>4, <1>5
<1>7. \A i \in 1 .. n - 1 : Pop(s)[i] = s[i]
  BY <1>1, <1>4, <1>5
<1> QED BY <1>1, <1>2, <1>4, <1>5, <1>6, <1>7

(* Neighbours in t were neighbours in s, or are its top and e.             *)
NeighboursStay(s, e, t) ==
  \A i \in 1 .. Len(t) - 1 :
    \E j \in 1 .. Len(s) :
      /\ t[i] = s[j]
      /\ (j < Len(s) /\ t[i + 1] = s[j + 1]) \/ (j = Len(s) /\ t[i + 1] = e)

(* Pushing on a stack and trimming it puts the new entry on top of some of *)
(* the newest entries there were, and neighbours stay neighbours.          *)
LEMMA PushPutsOnTop ==
  ASSUME NEW S, NEW s \in Seq(S), NEW e \in S,
         NEW t, t = Trim(Append(s, e))
  PROVE  /\ t \in Seq(S)
         /\ Len(t) \in Nat /\ Len(t) >= 1
         /\ Len(t) <= Len(s) + 1 /\ Len(t) <= MaxUndoDepth
         /\ t # <<>> /\ Top(t) = e /\ t[Len(t)] = e
         /\ NeighboursStay(s, e, t)
<1> DEFINE a == Append(s, e)
<1>1. /\ a \in Seq(S) /\ a # <<>> /\ Len(a) = Len(s) + 1
      /\ \A i \in 1 .. Len(s) : a[i] = s[i]
      /\ a[Len(s) + 1] = e
  BY AppendProperties
<1> HIDE DEF a
<1>2. /\ t \in Seq(S) /\ t # <<>>
      /\ Len(t) <= Len(a) /\ Len(t) <= MaxUndoDepth
      /\ \A i \in 1 .. Len(t) : t[i] = a[i + (Len(a) - Len(t))]
  BY <1>1, TrimKeepsNewest DEF a
<1>3. PICK n \in Nat : n = Len(s)
  BY LenProperties
<1>4. PICK m \in Nat : m = Len(t) /\ m >= 1
  BY <1>2, EmptySeq
<1>5. m <= n + 1 /\ \A i \in 1 .. m : t[i] = a[i + (n + 1 - m)]
  BY <1>1, <1>2, <1>3, <1>4
<1>6. t[m] = e
  BY <1>1, <1>3, <1>4, <1>5
<1>7. ASSUME NEW i \in 1 .. m - 1
      PROVE  \E j \in 1 .. n :
               /\ t[i] = s[j]
               /\ (j < n /\ t[i + 1] = s[j + 1]) \/ (j = n /\ t[i + 1] = e)
  <2> DEFINE j == i + (n + 1 - m)
  <2>1. j \in 1 .. n /\ i \in 1 .. m /\ i + 1 \in 1 .. m
    BY <1>3, <1>4, <1>5
  <2>2. t[i] = a[j] /\ t[i + 1] = a[j + 1]
    <3>1. t[i] = a[j]
      BY <1>5, <2>1
    <3>2. t[i + 1] = a[i + 1 + (n + 1 - m)]
      BY <1>5, <2>1
    <3>3. i + 1 + (n + 1 - m) = j + 1
      BY <1>3, <1>4, <2>1
    <3> QED BY <3>1, <3>2, <3>3
  <2>3. a[j] = s[j]
    BY <1>1, <1>3, <2>1
  <2>4. (j < n /\ a[j + 1] = s[j + 1]) \/ (j = n /\ a[j + 1] = e)
    <3> HIDE DEF j
    <3>1. CASE j < n
      BY <1>1, <1>3, <2>1, <3>1
    <3>2. CASE ~(j < n)
      BY <1>1, <1>3, <2>1, <3>2
    <3> QED BY <3>1, <3>2
  <2> QED BY <2>1, <2>2, <2>3, <2>4
<1>8. NeighboursStay(s, e, t)
  BY <1>3, <1>4, <1>7 DEF NeighboursStay
<1> QED BY <1>1, <1>2, <1>3, <1>4, <1>5, <1>6, <1>8 DEF Top

(* Putting a changed entry back in the place of the top changes nothing    *)
(* else.                                                                   *)
LEMMA ReplaceTop ==
  ASSUME NEW S, NEW s \in Seq(S), s # <<>>, NEW e \in S,
         NEW t, t = Append(Pop(s), e)
  PROVE  /\ t \in Seq(S) /\ t # <<>>
         /\ Len(s) \in Nat /\ Len(s) >= 1 /\ Len(t) = Len(s)
         /\ \A i \in 1 .. Len(s) - 1 : t[i] = s[i]
         /\ t[Len(s)] = e /\ Top(t) = e
<1>1. PICK n \in Nat : n = Len(s) /\ n >= 1
  BY EmptySeq
<1>2. /\ Pop(s) \in Seq(S) /\ Len(Pop(s)) = n - 1
      /\ \A i \in 1 .. n - 1 : Pop(s)[i] = s[i]
  BY <1>1, PopDropsTop
<1> HIDE DEF Pop
<1>3. /\ t \in Seq(S) /\ t # <<>> /\ Len(t) = n - 1 + 1
      /\ \A i \in 1 .. n - 1 : t[i] = Pop(s)[i]
      /\ t[n - 1 + 1] = e
  BY <1>2, AppendProperties
<1> QED BY <1>1, <1>2, <1>3 DEF Top

-----------------------------------------------------------------------------
(* What a step can be, with the outcome of the command's call named.       *)
ExecuteStep(b, c, d) ==
  /\ <<c, d>> \in Execute(b, document)
  /\ IF c.executed THEN Accept(c, d) ELSE Reject(d)

UndoStep(c, d) ==
  /\ undoStack # <<>>
  /\ <<c, d>> \in UndoOutcomes(Top(undoStack))
  /\ IF c.undone THEN Undone(Top(undoStack), c, d) ELSE UndoRefused(Top(undoStack), c, d)

RedoStep(c, d) ==
  /\ redoStack # <<>>
  /\ <<c, d>> \in Execute(Top(redoStack).command, document)
  /\ IF c.executed THEN Redone(Top(redoStack), c, d) ELSE RedoRefused(Top(redoStack), c, d)

(* Every step of Next is one of these, and its outcome a command and a     *)
(* document.                                                               *)
LEMMA StepCases ==
  ASSUME TypeOK, [Next]_vars
  PROVE  \/ \E b \in NewCommand, c \in Command, d \in Document : ExecuteStep(b, c, d)
         \/ \E c \in Command, d \in Document : UndoStep(c, d)
         \/ \E c \in Command, d \in Document : RedoStep(c, d)
         \/ \E d \in InitialDocument : ClearHistory(d)
         \/ EditElsewhere
         \/ UNCHANGED vars
<1>1. ASSUME NEW b \in NewCommand, ExecuteCommand(b)
      PROVE  \E c \in Command, d \in Document : ExecuteStep(b, c, d)
  <2>1. PICK r \in Execute(b, document) :
          IF r[1].executed THEN Accept(r[1], r[2]) ELSE Reject(r[2])
    BY <1>1 DEF ExecuteCommand
  <2>2. r \in Command \X Document
    BY <2>1, CommandManagerAssumption DEF TypeOK
  <2>3. r[1] \in Command /\ r[2] \in Document /\ r = <<r[1], r[2]>>
    BY <2>2
  <2> QED BY <2>1, <2>3 DEF ExecuteStep
<1>2. ASSUME UndoLast
      PROVE  \E c \in Command, d \in Document : UndoStep(c, d)
  <2> DEFINE entry == Top(undoStack)
  <2>1. undoStack # <<>> /\ entry \in HistoryEntry
    BY <1>2, PopDropsTop DEF UndoLast, TypeOK
  <2>2. PICK r \in UndoOutcomes(entry) :
          IF r[1].undone THEN Undone(entry, r[1], r[2]) ELSE UndoRefused(entry, r[1], r[2])
    BY <1>2 DEF UndoLast
  <2>3. entry.command \in Command
    BY <2>1 DEF HistoryEntry
  <2>4. UndoOutcomes(entry) \subseteq Command \X Document
    <3>1. CASE entry.command.executed
      BY <2>3, <3>1, CommandManagerAssumption DEF UndoOutcomes, TypeOK
    <3>2. CASE ~entry.command.executed
      <4>1. UndoOutcomes(entry) = {<<entry.command, document>>}
        BY <3>2 DEF UndoOutcomes
      <4> QED BY <2>3, <4>1 DEF TypeOK
    <3> QED BY <3>1, <3>2
  <2>5. r[1] \in Command /\ r[2] \in Document /\ r = <<r[1], r[2]>>
    BY <2>2, <2>4
  <2> QED BY <2>1, <2>2, <2>5 DEF UndoStep
<1>3. ASSUME RedoLast
      PROVE  \E c \in Command, d \in Document : RedoStep(c, d)
  <2> DEFINE entry == Top(redoStack)
  <2>1. redoStack # <<>> /\ entry \in HistoryEntry
    BY <1>3, PopDropsTop DEF RedoLast, TypeOK
  <2>2. PICK r \in Execute(entry.command, document) :
          IF r[1].executed THEN Redone(entry, r[1], r[2]) ELSE RedoRefused(entry, r[1], r[2])
    BY <1>3 DEF RedoLast
  <2>3. r \in Command \X Document
    BY <2>1, <2>2, CommandManagerAssumption DEF HistoryEntry, TypeOK
  <2>4. r[1] \in Command /\ r[2] \in Document /\ r = <<r[1], r[2]>>
    BY <2>3
  <2> QED BY <2>1, <2>2, <2>4 DEF RedoStep
<1> QED BY <1>1, <1>2, <1>3 DEF Next

-----------------------------------------------------------------------------
(* Minting makes room for the new id and keeps the meaning of the others.  *)
LEMMA MintingExtends ==
  ASSUME TypeInv, NEW d, MintStateId(d)
  PROVE  /\ nextStateId' \in 1 .. MaxStateId /\ nextStateId' = nextStateId + 1
         /\ currentStateId' = nextStateId
         /\ currentStateId' \in 0 .. nextStateId' - 1
         /\ DOMAIN meaning' = 0 .. nextStateId' - 1
         /\ meaning'[nextStateId] = Content(d)
         /\ \A id \in 0 .. nextStateId - 1 : meaning'[id] = meaning[id]
         /\ MintedEntry(nextStateId) \subseteq MintedEntry(nextStateId')
<1>1. nextStateId \in Nat \ {0} /\ nextStateId' = nextStateId + 1 /\ nextStateId < MaxStateId
  BY CommandManagerAssumption DEF TypeInv, TypeOK, MintStateId
<1>2. meaning' = [id \in 0 .. nextStateId |-> IF id = nextStateId THEN Content(d) ELSE meaning[id]]
  BY DEF MintStateId
<1>3. /\ DOMAIN meaning' = 0 .. nextStateId' - 1
      /\ meaning'[nextStateId] = Content(d)
      /\ \A id \in 0 .. nextStateId - 1 : meaning'[id] = meaning[id]
  BY <1>1, <1>2
<1>4. currentStateId' = nextStateId /\ currentStateId' \in 0 .. nextStateId' - 1
  BY <1>1 DEF MintStateId
<1>5. MintedEntry(nextStateId) \subseteq MintedEntry(nextStateId')
  BY <1>1 DEF MintedEntry
<1>6. nextStateId' \in 1 .. MaxStateId
  BY <1>1, CommandManagerAssumption
<1> QED BY <1>1, <1>3, <1>4, <1>5, <1>6

(* The initial state is well-typed.                                        *)
LEMMA InitTyped == Init => TypeInv
<1> SUFFICES ASSUME Init PROVE TypeInv
  OBVIOUS
<1>1. undoStack \in Seq(HistoryEntry) /\ redoStack \in Seq(HistoryEntry)
  BY DEF Init
<1>2. undoStack \in Seq(MintedEntry(nextStateId)) /\ redoStack \in Seq(MintedEntry(nextStateId))
  BY DEF Init
<1>3. nextStateId \in 1 .. MaxStateId /\ currentStateId \in 0 .. nextStateId - 1
  BY CommandManagerAssumption DEF Init
<1>4. document \in Document /\ DOMAIN meaning = 0 .. nextStateId - 1
  BY CommandManagerAssumption DEF Init
<1> QED BY <1>1, <1>2, <1>3, <1>4 DEF TypeInv, TypeOK

(* Every step keeps the types and goes only to ids that were minted.       *)
LEMMA StepTyped == TypeInv /\ [Next]_vars => TypeInv'
<1> SUFFICES ASSUME TypeInv, [Next]_vars PROVE TypeInv'
  OBVIOUS
<1> DEFINE E == MintedEntry(nextStateId)
<1> USE DEF TypeInv
<1>t. /\ TypeOK /\ undoStack \in Seq(E) /\ redoStack \in Seq(E)
      /\ nextStateId \in Nat \ {0}
  BY CommandManagerAssumption DEF TypeOK
<1>e. ASSUME NEW e \in E, NEW c \in Command
      PROVE  /\ [e EXCEPT !.command = c] \in E
             /\ e.before \in 0 .. nextStateId - 1 /\ e.after \in 0 .. nextStateId - 1
  BY DEF MintedEntry
<1>h. MintedEntry(nextStateId) \subseteq HistoryEntry
  BY <1>t DEF MintedEntry, HistoryEntry
<1>m. ASSUME nextStateId' = nextStateId, undoStack' \in Seq(E), redoStack' \in Seq(E),
             currentStateId' \in 0 .. nextStateId - 1, document' \in Document, meaning' = meaning
      PROVE  TypeInv'
  <2>1. undoStack' \in Seq(HistoryEntry) /\ redoStack' \in Seq(HistoryEntry)
    BY <1>h, <1>m, SeqMonotonic
  <2> QED BY <1>m, <1>t, <2>1 DEF TypeOK
<1>n. ASSUME nextStateId' = nextStateId + 1, NEW d \in Document, MintStateId(d), document' = d,
             undoStack' \in Seq(MintedEntry(nextStateId')),
             redoStack' \in Seq(MintedEntry(nextStateId'))
      PROVE  TypeInv'
  <2>1. MintedEntry(nextStateId') \subseteq HistoryEntry
    BY <1>n, <1>t DEF MintedEntry, HistoryEntry
  <2>2. undoStack' \in Seq(HistoryEntry) /\ redoStack' \in Seq(HistoryEntry)
    BY <1>n, <2>1, SeqMonotonic
  <2> QED BY <1>n, <2>2, MintingExtends DEF TypeOK
<1>1. ASSUME NEW b \in NewCommand, NEW c \in Command, NEW d \in Document, ExecuteStep(b, c, d)
      PROVE  TypeInv'
  <2>1. CASE Accept(c, d)
    <3> DEFINE e == [command |-> c, before |-> currentStateId, after |-> nextStateId]
    <3>1. MintStateId(d) /\ nextStateId' = nextStateId + 1 /\ document' = d
      BY <2>1 DEF Accept, MintStateId
    <3>2. undoStack \in Seq(MintedEntry(nextStateId'))
      BY <1>t, <3>1, MintingExtends, SeqMonotonic
    <3>3. e \in MintedEntry(nextStateId')
      BY <1>t, <3>1 DEF MintedEntry, TypeOK
    <3>4. undoStack' \in Seq(MintedEntry(nextStateId'))
      BY <2>1, <3>2, <3>3, PushPutsOnTop DEF Accept
    <3>5. redoStack' \in Seq(MintedEntry(nextStateId'))
      BY <2>1 DEF Accept
    <3> QED BY <1>n, <3>1, <3>4, <3>5
  <2>2. CASE Reject(d)
    BY <1>m, <1>t, <2>2 DEF Reject, KeepStateIds, TypeOK
  <2> QED BY <1>1, <2>1, <2>2 DEF ExecuteStep
<1>2. ASSUME NEW c \in Command, NEW d \in Document, UndoStep(c, d)
      PROVE  TypeInv'
  <2> DEFINE top == Top(undoStack)
             e == [top EXCEPT !.command = c]
  <2>1. undoStack # <<>> /\ top \in E /\ e \in E /\ Pop(undoStack) \in Seq(E)
    BY <1>2, <1>e, <1>t, PopDropsTop DEF UndoStep
  <2> HIDE DEF e, top
  <2>2. CASE Undone(top, c, d)
    <3>1. redoStack' \in Seq(E)
      BY <1>t, <2>1, <2>2, AppendProperties DEF Undone, e
    <3> QED BY <1>e, <1>m, <2>1, <2>2, <3>1 DEF Undone
  <2>3. CASE UndoRefused(top, c, d)
    <3>1. undoStack' \in Seq(E) /\ redoStack' \in Seq(E) /\ document' = d
      BY <1>t, <2>1, <2>3, AppendProperties DEF UndoRefused, e
    <3>2. CASE MintStateId(d)
      <4>1. nextStateId' = nextStateId + 1
        BY <3>2 DEF MintStateId
      <4>2. undoStack' \in Seq(MintedEntry(nextStateId')) /\ redoStack' \in Seq(MintedEntry(nextStateId'))
        BY <3>1, <3>2, MintingExtends, SeqMonotonic
      <4> QED BY <1>n, <3>1, <3>2, <4>1, <4>2
    <3>3. CASE KeepStateIds
      BY <1>m, <1>t, <3>1, <3>3 DEF KeepStateIds, TypeOK
    <3> QED BY <2>3, <3>2, <3>3 DEF UndoRefused
  <2> QED BY <1>2, <2>2, <2>3 DEF UndoStep, top
<1>3. ASSUME NEW c \in Command, NEW d \in Document, RedoStep(c, d)
      PROVE  TypeInv'
  <2> DEFINE top == Top(redoStack)
             e == [top EXCEPT !.command = c]
  <2>1. redoStack # <<>> /\ top \in E /\ e \in E /\ Pop(redoStack) \in Seq(E)
    BY <1>3, <1>e, <1>t, PopDropsTop DEF RedoStep
  <2> HIDE DEF e, top
  <2>2. CASE Redone(top, c, d)
    <3>1. undoStack' \in Seq(E)
      BY <1>t, <2>1, <2>2, PushPutsOnTop DEF Redone, e
    <3> QED BY <1>e, <1>m, <2>1, <2>2, <3>1 DEF Redone, RedoneUnderOldId
  <2>3. CASE RedoRefused(top, c, d)
    <3>1. redoStack' \in Seq(E)
      BY <1>t, <2>1, <2>3, AppendProperties DEF RedoRefused, e
    <3> QED BY <1>m, <1>t, <2>3, <3>1 DEF RedoRefused, KeepStateIds, TypeOK
  <2> QED BY <1>3, <2>2, <2>3 DEF RedoStep, top
<1>4. ASSUME NEW d \in InitialDocument, ClearHistory(d)
      PROVE  TypeInv'
  <2>1. undoStack' = <<>> /\ redoStack' = <<>> /\ nextStateId' = 1
    BY <1>4 DEF ClearHistory
  <2>2. undoStack' \in Seq(MintedEntry(nextStateId')) /\ redoStack' \in Seq(MintedEntry(nextStateId'))
    BY <2>1
  <2>3. TypeOK'
    BY <1>4, CommandManagerAssumption DEF ClearHistory, TypeOK
  <2> QED BY <2>2, <2>3
<1>5. ASSUME EditElsewhere
      PROVE  TypeInv'
  BY <1>m, <1>t, <1>5, CommandManagerAssumption DEF EditElsewhere, TypeOK
<1>6. ASSUME UNCHANGED vars
      PROVE  TypeInv'
  BY <1>m, <1>t, <1>6 DEF vars, TypeOK
<1> QED BY <1>1, <1>2, <1>3, <1>4, <1>5, <1>6, <1>t, StepCases

(* THEOREM: the history is well-typed in every reachable state.            *)
THEOREM TypeCorrect == Spec => []TypeOK
<1>1. Spec => []TypeInv
  BY InitTyped, StepTyped, PTL DEF Spec
<1>2. TypeInv => TypeOK
  BY DEF TypeInv
<1> QED BY <1>1, <1>2, PTL

-----------------------------------------------------------------------------
(* The bound on the history is kept by every step: executeCommand empties  *)
(* the redo stack, undo and redo move one entry from one stack to the      *)
(* other, so that the trimming in redo() never drops anything.             *)
LEMMA StepBounded == TypeInv /\ HistoryBounded /\ [Next]_vars => HistoryBounded'
<1> SUFFICES ASSUME TypeInv, HistoryBounded, [Next]_vars PROVE HistoryBounded'
  OBVIOUS
<1>t. TypeOK /\ undoStack \in Seq(HistoryEntry) /\ redoStack \in Seq(HistoryEntry)
  BY DEF TypeInv, TypeOK
<1>l. PICK u \in Nat, r \in Nat : u = Len(undoStack) /\ r = Len(redoStack) /\ u + r <= MaxUndoDepth
  BY <1>t, LenProperties DEF HistoryBounded
<1>m. MaxUndoDepth \in Nat
  BY CommandManagerAssumption
<1>e. ASSUME NEW e \in HistoryEntry, NEW c \in Command
      PROVE  [e EXCEPT !.command = c] \in HistoryEntry
  BY DEF HistoryEntry
<1>1. ASSUME NEW b \in NewCommand, NEW c \in Command, NEW d \in Document, ExecuteStep(b, c, d)
      PROVE  HistoryBounded'
  <2>1. CASE Accept(c, d)
    <3> DEFINE e == [command |-> c, before |-> currentStateId, after |-> nextStateId]
    <3>1. e \in HistoryEntry
      BY <1>t, CommandManagerAssumption DEF HistoryEntry, TypeOK
    <3>2. Len(undoStack') \in Nat /\ Len(undoStack') <= MaxUndoDepth
      BY <1>t, <2>1, <3>1, PushPutsOnTop DEF Accept
    <3>3. Len(redoStack') = 0
      BY <2>1 DEF Accept
    <3> QED BY <1>m, <3>2, <3>3 DEF HistoryBounded
  <2>2. CASE Reject(d)
    BY <2>2 DEF Reject, HistoryBounded
  <2> QED BY <1>1, <2>1, <2>2 DEF ExecuteStep
<1>2. ASSUME NEW c \in Command, NEW d \in Document, UndoStep(c, d)
      PROVE  HistoryBounded'
  <2> DEFINE top == Top(undoStack)
             e == [top EXCEPT !.command = c]
  <2>1. undoStack # <<>> /\ e \in HistoryEntry /\ u >= 1 /\ Len(Pop(undoStack)) = u - 1
    BY <1>2, <1>e, <1>l, <1>t, PopDropsTop DEF UndoStep
  <2> HIDE DEF e
  <2>2. CASE Undone(top, c, d)
    <3>1. Len(redoStack') = r + 1
      BY <1>l, <1>t, <2>1, <2>2, AppendProperties DEF Undone, e
    <3>2. Len(undoStack') = u - 1
      BY <2>1, <2>2 DEF Undone
    <3> QED BY <1>l, <1>m, <2>1, <3>1, <3>2 DEF HistoryBounded
  <2>3. CASE UndoRefused(top, c, d)
    <3>1. undoStack' = Append(Pop(undoStack), e)
      BY <2>3 DEF UndoRefused, e
    <3>2. Len(undoStack') = u
      BY <1>l, <1>t, <2>1, <3>1, ReplaceTop
    <3> QED BY <1>l, <2>3, <3>2 DEF HistoryBounded, UndoRefused
  <2> QED BY <1>2, <2>2, <2>3 DEF UndoStep
<1>3. ASSUME NEW c \in Command, NEW d \in Document, RedoStep(c, d)
      PROVE  HistoryBounded'
  <2> DEFINE top == Top(redoStack)
             e == [top EXCEPT !.command = c]
  <2>1. redoStack # <<>> /\ e \in HistoryEntry /\ r >= 1 /\ Len(Pop(redoStack)) = r - 1
    BY <1>3, <1>e, <1>l, <1>t, PopDropsTop DEF RedoStep
  <2> HIDE DEF e
  <2>2. CASE Redone(top, c, d)
    <3>1. undoStack' = Trim(Append(undoStack, e))
      BY <2>2 DEF Redone, e
    <3>2. Len(undoStack') \in Nat /\ Len(undoStack') <= u + 1
      BY <1>l, <1>t, <2>1, <3>1, PushPutsOnTop
    <3>3. Len(redoStack') = r - 1
      BY <2>1, <2>2 DEF Redone
    <3> QED BY <1>l, <1>m, <2>1, <3>2, <3>3 DEF HistoryBounded
  <2>3. CASE RedoRefused(top, c, d)
    <3>1. redoStack' = Append(Pop(redoStack), e)
      BY <2>3 DEF RedoRefused, e
    <3>2. Len(redoStack') = r
      BY <1>l, <1>t, <2>1, <3>1, ReplaceTop
    <3> QED BY <1>l, <2>3, <3>2 DEF HistoryBounded, RedoRefused
  <2> QED BY <1>3, <2>2, <2>3 DEF RedoStep
<1>4. ASSUME NEW d \in InitialDocument, ClearHistory(d)
      PROVE  HistoryBounded'
  BY <1>4, <1>m DEF ClearHistory, HistoryBounded
<1>5. ASSUME EditElsewhere \/ UNCHANGED vars
      PROVE  HistoryBounded'
  BY <1>5 DEF EditElsewhere, vars, HistoryBounded
<1> QED BY <1>1, <1>2, <1>3, <1>4, <1>5, <1>t, StepCases

(* THEOREM: undo and redo together never hold more than kMaxUndoDepth      *)
(* entries.                                                                *)
THEOREM HistoryIsBounded == Spec => []HistoryBounded
<1>1. Init => HistoryBounded
  BY CommandManagerAssumption DEF Init, HistoryBounded
<1>2. Spec => [](TypeInv /\ HistoryBounded)
  BY <1>1, InitTyped, StepTyped, StepBounded, PTL DEF Spec
<1> QED BY <1>2, PTL

-----------------------------------------------------------------------------
(* Neighbours of a stack are related by R.                                 *)
Chain(s, R) == \A i \in 1 .. Len(s) - 1 : <<s[i], s[i + 1]>> \in R

(* A new top that follows the old one keeps a chain, also when the bottom  *)
(* is trimmed.                                                             *)
LEMMA PushChains ==
  ASSUME NEW S, NEW s \in Seq(S), NEW e \in S, NEW R, Chain(s, R),
         s # <<>> => <<Top(s), e>> \in R
  PROVE  Chain(Trim(Append(s, e)), R)
<1>0. PICK t : t = Trim(Append(s, e))
  OBVIOUS
<1>1. Len(t) \in Nat /\ NeighboursStay(s, e, t)
  BY <1>0, PushPutsOnTop
<1>2. PICK n \in Nat : n = Len(s)
  BY LenProperties
<1>3. ASSUME NEW i \in 1 .. Len(t) - 1
      PROVE  <<t[i], t[i + 1]>> \in R
  <2>1. PICK j \in 1 .. n :
          /\ t[i] = s[j]
          /\ (j < n /\ t[i + 1] = s[j + 1]) \/ (j = n /\ t[i + 1] = e)
    BY <1>1, <1>2, <1>3 DEF NeighboursStay
  <2>2. CASE j < n
    <3>1. j \in 1 .. n - 1 /\ t[i + 1] = s[j + 1]
      BY <2>1, <2>2
    <3> QED BY <1>2, <2>1, <3>1 DEF Chain
  <2>3. CASE ~(j < n)
    <3>1. j = n /\ t[i + 1] = e /\ n >= 1
      BY <2>1, <2>3
    <3>2. s # <<>> /\ t[i] = Top(s)
      BY <1>2, <2>1, <3>1 DEF Top
    <3> QED BY <3>1, <3>2
  <2> QED BY <2>1, <2>2, <2>3
<1> QED BY <1>0, <1>3 DEF Chain

(* The same without trimming.                                              *)
LEMMA AppendChains ==
  ASSUME NEW S, NEW s \in Seq(S), NEW e \in S, NEW R, Chain(s, R),
         s # <<>> => <<Top(s), e>> \in R
  PROVE  Chain(Append(s, e), R)
<1> DEFINE t == Append(s, e)
<1>1. PICK n \in Nat : n = Len(s)
  BY LenProperties
<1>2. Len(t) = n + 1 /\ t[n + 1] = e /\ \A i \in 1 .. n : t[i] = s[i]
  BY <1>1, AppendProperties
<1> HIDE DEF t
<1>3. ASSUME NEW i \in 1 .. Len(t) - 1
      PROVE  <<t[i], t[i + 1]>> \in R
  <2>0. i \in 1 .. n /\ t[i] = s[i]
    BY <1>1, <1>2, <1>3
  <2>1. CASE i < n
    <3>1. i \in 1 .. n - 1 /\ t[i + 1] = s[i + 1]
      BY <1>2, <2>0, <2>1
    <3> QED BY <1>1, <2>0, <3>1 DEF Chain
  <2>2. CASE ~(i < n)
    <3>1. i = n /\ n >= 1
      BY <2>0, <2>2
    <3>2. s # <<>> /\ t[i] = Top(s)
      BY <1>1, <2>0, <3>1 DEF Top
    <3> QED BY <1>2, <3>1, <3>2
  <2> QED BY <2>1, <2>2
<1> QED BY <1>3 DEF Chain, t

(* Popping keeps a chain, and the popped entry follows the new top.        *)
LEMMA PopChains ==
  ASSUME NEW S, NEW s \in Seq(S), s # <<>>, NEW R, Chain(s, R)
  PROVE  /\ Chain(Pop(s), R)
         /\ Pop(s) # <<>> => <<Top(Pop(s)), Top(s)>> \in R
<1>1. PICK n \in Nat : n = Len(s) /\ n >= 1
  BY EmptySeq
<1>2. /\ Pop(s) \in Seq(S) /\ Len(Pop(s)) = n - 1
      /\ \A i \in 1 .. n - 1 : Pop(s)[i] = s[i]
  BY <1>1, PopDropsTop
<1> HIDE DEF Pop
<1>3. Chain(Pop(s), R)
  <2>1. ASSUME NEW i \in 1 .. Len(Pop(s)) - 1
        PROVE  <<Pop(s)[i], Pop(s)[i + 1]>> \in R
    <3>1. i \in 1 .. n - 1 /\ i + 1 \in 1 .. n - 1
      BY <1>1, <1>2, <2>1
    <3>2. Pop(s)[i] = s[i] /\ Pop(s)[i + 1] = s[i + 1]
      BY <1>2, <3>1
    <3> QED BY <1>1, <3>1, <3>2 DEF Chain
  <2> QED BY <2>1 DEF Chain
<1>4. ASSUME Pop(s) # <<>>
      PROVE  <<Top(Pop(s)), Top(s)>> \in R
  <2>1. n - 1 >= 1
    BY <1>1, <1>2, <1>4, EmptySeq
  <2>2. Top(Pop(s)) = s[n - 1]
    BY <1>1, <1>2, <2>1 DEF Top
  <2>3. <<s[n - 1], s[n - 1 + 1]>> \in R
    BY <1>1, <2>1 DEF Chain
  <2>4. n - 1 + 1 = n
    BY <1>1
  <2> QED BY <1>1, <2>2, <2>3, <2>4 DEF Top
<1> QED BY <1>3, <1>4

-----------------------------------------------------------------------------
(* The strengthening of StateIdNamesContent.  An entry knows its way if    *)
(* its command leads from what the id before was minted for to what the id *)
(* after was minted for.  On the undo stack it also counts as executed, so *)
(* that undo() calls it.                                                   *)
KnowsWay(entry) == meaning[entry.after] \in Leads(entry.command, meaning[entry.before])

Way == {e \in MintedEntry(nextStateId) : KnowsWay(e)}

UndoWay == {e \in Way : e.command.executed}

Meets == {pair \in HistoryEntry \X HistoryEntry : pair[1].after = pair[2].before}

MeetsBack == {pair \in HistoryEntry \X HistoryEntry : pair[2].after = pair[1].before}

Sound ==
  /\ \A id \in 0 .. nextStateId - 1 : meaning[id] \in Contents
  /\ undoStack \in Seq(UndoWay)
  /\ redoStack \in Seq(Way)
  /\ Chain(undoStack, Meets)
  /\ Chain(redoStack, MeetsBack)
  /\ undoStack # <<>> => Top(undoStack).after = currentStateId
  /\ redoStack # <<>> => Top(redoStack).before = currentStateId
  /\ meaning[currentStateId] = Content(document)

(* Sound says what it was made for.                                        *)
LEMMA SoundSuffices ==
  ASSUME TypeInv, Sound
  PROVE  StateIdNamesContent /\ StacksMeet /\ UndoReachesCommand
<1>1. /\ undoStack \in Seq(HistoryEntry) /\ redoStack \in Seq(HistoryEntry)
      /\ DOMAIN undoStack = 1 .. Len(undoStack)
  BY LenProperties DEF TypeInv, TypeOK
<1>2. \A i \in 1 .. Len(undoStack) - 1 : undoStack[i].after = undoStack[i + 1].before
  BY DEF Sound, Chain, Meets
<1>3. \A i \in 1 .. Len(redoStack) - 1 : redoStack[i + 1].after = redoStack[i].before
  BY DEF Sound, Chain, MeetsBack
<1>4. UndoReachesCommand
  <2>1. ASSUME NEW i \in DOMAIN undoStack PROVE undoStack[i] \in UndoWay
    BY <1>1, <2>1, ElementOfSeq DEF Sound
  <2> QED BY <2>1 DEF UndoReachesCommand, UndoWay
<1> QED BY <1>2, <1>3, <1>4 DEF Sound, StacksMeet, StateIdNamesContent

(* The initial state is sound.                                             *)
LEMMA InitSound == Init => Sound
<1> SUFFICES ASSUME Init PROVE Sound
  OBVIOUS
<1>1. meaning[0] = Content(document) /\ nextStateId = 1 /\ currentStateId = 0 /\ document \in Document
  BY CommandManagerAssumption DEF Init
<1>2. \A id \in 0 .. nextStateId - 1 : meaning[id] \in Contents
  <2>1. \A id \in 0 .. nextStateId - 1 : id = 0
    BY <1>1
  <2> QED BY <1>1, <2>1 DEF Contents
<1>3. undoStack \in Seq(UndoWay) /\ redoStack \in Seq(Way)
  BY DEF Init
<1>4. Chain(undoStack, Meets) /\ Chain(redoStack, MeetsBack)
  BY DEF Init, Chain
<1> QED BY <1>1, <1>2, <1>3, <1>4 DEF Init, Sound

(* Entries that know their way still do when an id is minted.              *)
LEMMA MintingKeepsWays ==
  ASSUME TypeInv, NEW d, MintStateId(d)
  PROVE  Way \subseteq Way' /\ UndoWay \subseteq UndoWay'
<1>1. /\ \A id \in 0 .. nextStateId - 1 : meaning'[id] = meaning[id]
      /\ MintedEntry(nextStateId) \subseteq MintedEntry(nextStateId')
  BY MintingExtends
<1>2. ASSUME NEW e \in Way PROVE e \in Way'
  <2>1. /\ e \in MintedEntry(nextStateId) /\ KnowsWay(e)
        /\ e.before \in 0 .. nextStateId - 1 /\ e.after \in 0 .. nextStateId - 1
    BY DEF Way, MintedEntry
  <2>2. meaning'[e.before] = meaning[e.before] /\ meaning'[e.after] = meaning[e.after]
    BY <1>1, <2>1
  <2>3. KnowsWay(e)'
    BY <2>1, <2>2 DEF KnowsWay
  <2> QED BY <1>1, <2>1, <2>3 DEF Way
<1> QED BY <1>2 DEF UndoWay

(* Entries whose command is exchanged after a call keep their ids.         *)
LEMMA ChangedEntry ==
  ASSUME NEW e \in MintedEntry(nextStateId), NEW c \in Command,
         NEW f, f = [e EXCEPT !.command = c], nextStateId \in Nat
  PROVE  /\ f \in MintedEntry(nextStateId) /\ f \in HistoryEntry /\ e \in HistoryEntry
         /\ f.command = c /\ f.before = e.before /\ f.after = e.after
         /\ e.before \in 0 .. nextStateId - 1 /\ e.after \in 0 .. nextStateId - 1
BY DEF MintedEntry, HistoryEntry

(* An accepted command is sound: its entry leads from the content of the   *)
(* id before to the content of the id just minted.                         *)
LEMMA AcceptSound ==
  ASSUME ReversibleCommands, TypeInv, Sound,
         NEW b \in NewCommand, NEW c \in Command, NEW d \in Document,
         <<c, d>> \in Execute(b, document), c.executed, Accept(c, d)
  PROVE  Sound'
<1>0. PICK e : e = [command |-> c, before |-> currentStateId, after |-> nextStateId]
  OBVIOUS
<1>1. /\ MintStateId(d) /\ document' = d /\ redoStack' = <<>>
      /\ undoStack' = Trim(Append(undoStack, e))
  BY <1>0 DEF Accept
<1>2. /\ nextStateId \in Nat \ {0} /\ nextStateId' = nextStateId + 1
      /\ currentStateId \in 0 .. nextStateId - 1 /\ currentStateId' = nextStateId
      /\ meaning'[nextStateId] = Content(d)
      /\ \A id \in 0 .. nextStateId - 1 : meaning'[id] = meaning[id]
  BY <1>1, MintingExtends, CommandManagerAssumption DEF TypeInv, TypeOK
<1>3. /\ e \in HistoryEntry /\ e \in MintedEntry(nextStateId')
      /\ e.command = c /\ e.before = currentStateId /\ e.after = nextStateId
  BY <1>0, <1>2 DEF HistoryEntry, MintedEntry
<1>4. Content(d) \in Leads(c, Content(document))
  <2>1. \A r \in Execute(b, document) :
          IF r[1].executed THEN Content(r[2]) \in Leads(r[1], Content(document))
                           ELSE Content(r[2]) = Content(document)
    BY DEF ReversibleCommands, FirstCallLeads, TypeInv, TypeOK
  <2>2. LET r == <<c, d>> IN
          IF r[1].executed THEN Content(r[2]) \in Leads(r[1], Content(document))
                           ELSE Content(r[2]) = Content(document)
    BY <2>1
  <2> QED BY <2>2
<1>5. e \in UndoWay'
  <2>1. meaning'[e.before] = Content(document) /\ meaning'[e.after] = Content(d)
    BY <1>2, <1>3 DEF Sound
  <2>2. KnowsWay(e)'
    BY <1>3, <1>4, <2>1 DEF KnowsWay
  <2> QED BY <1>3, <2>2 DEF Way, UndoWay
<1>6. undoStack \in Seq(UndoWay') /\ undoStack \in Seq(HistoryEntry)
  BY <1>1, MintingKeepsWays, SeqMonotonic DEF Sound, TypeInv, TypeOK
<1>7. undoStack' \in Seq(UndoWay') /\ undoStack' # <<>> /\ Top(undoStack') = e
  BY <1>1, <1>5, <1>6, PushPutsOnTop
<1>8. Chain(undoStack, Meets)'
  <2>1. ASSUME undoStack # <<>> PROVE <<Top(undoStack), e>> \in Meets
    BY <1>3, <1>6, <2>1, PopDropsTop DEF Sound, Meets
  <2>2. Chain(Trim(Append(undoStack, e)), Meets)
    BY <1>3, <1>6, <2>1, PushChains DEF Sound
  <2> QED BY <1>1, <2>2 DEF Chain, Meets
<1>9. \A id \in 0 .. nextStateId' - 1 : meaning'[id] \in Contents
  <2>1. \A id \in 0 .. nextStateId' - 1 : id = nextStateId \/ id \in 0 .. nextStateId - 1
    BY <1>2
  <2> QED BY <1>2, <2>1 DEF Sound, Contents
<1>10. redoStack' \in Seq(Way') /\ Chain(redoStack, MeetsBack)'
  BY <1>1 DEF Chain
<1> QED BY <1>1, <1>2, <1>3, <1>7, <1>8, <1>9, <1>10 DEF Sound

(* When the ids and what they mean are kept, so are the entries that know  *)
(* their way.                                                              *)
LEMMA KeepingKeepsWays ==
  ASSUME nextStateId' = nextStateId, meaning' = meaning
  PROVE  Way' = Way /\ UndoWay' = UndoWay
BY DEF Way, UndoWay, KnowsWay

(* An undo of a reversible command is sound: it leads back to the content  *)
(* of the id before, or is refused and leaves everything as it was.        *)
LEMMA UndoSound ==
  ASSUME ReversibleCommands, TypeInv, Sound,
         NEW c \in Command, NEW d \in Document, UndoStep(c, d)
  PROVE  Sound'
<1>0. PICK top, e : top = Top(undoStack) /\ e = [top EXCEPT !.command = c]
  OBVIOUS
<1>1. /\ undoStack # <<>> /\ undoStack \in Seq(UndoWay) /\ redoStack \in Seq(Way)
      /\ top \in UndoWay /\ Pop(undoStack) \in Seq(UndoWay)
  BY <1>0, PopDropsTop DEF UndoStep, Sound
<1>2. /\ nextStateId \in Nat /\ top \in MintedEntry(nextStateId)
      /\ top.command \in Command /\ top.command.executed
      /\ meaning[top.after] \in Leads(top.command, meaning[top.before])
  BY <1>1, CommandManagerAssumption
  DEF TypeInv, TypeOK, Way, UndoWay, KnowsWay, MintedEntry
<1>3. /\ e \in MintedEntry(nextStateId) /\ e \in HistoryEntry /\ top \in HistoryEntry
      /\ e.command = c /\ e.before = top.before /\ e.after = top.after
      /\ top.before \in 0 .. nextStateId - 1 /\ top.after \in 0 .. nextStateId - 1
  BY <1>0, <1>2, ChangedEntry
<1>4. /\ undoStack \in Seq(HistoryEntry) /\ redoStack \in Seq(HistoryEntry)
      /\ Pop(undoStack) \in Seq(HistoryEntry)
  BY <1>1, PopDropsTop DEF TypeInv, TypeOK
<1>5. /\ Content(document) = meaning[top.after] /\ top.after = currentStateId
      /\ meaning[top.before] \in Contents
  BY <1>0, <1>1, <1>3 DEF Sound
<1>6. <<c, d>> \in Undo(top.command, document)
  BY <1>0, <1>2 DEF UndoStep, UndoOutcomes
<1>7. /\ meaning[e.after] \in Leads(c, meaning[e.before])
      /\ c.undone => Content(d) = meaning[top.before]
      /\ ~c.undone => c.executed /\ ~c.tore /\ Content(d) = meaning[top.after]
  <2>1. \A r \in Undo(top.command, document) :
          /\ meaning[top.after] \in Leads(r[1], meaning[top.before])
          /\ IF r[1].undone THEN Content(r[2]) = meaning[top.before]
             ELSE r[1].executed /\ ~r[1].tore /\ Content(r[2]) = meaning[top.after]
    BY <1>2, <1>5 DEF ReversibleCommands, UndoLeadsBack, TypeInv, TypeOK
  <2>2. LET r == <<c, d>> IN
          /\ meaning[top.after] \in Leads(r[1], meaning[top.before])
          /\ IF r[1].undone THEN Content(r[2]) = meaning[top.before]
             ELSE r[1].executed /\ ~r[1].tore /\ Content(r[2]) = meaning[top.after]
    BY <1>6, <2>1
  <2> QED BY <1>3, <2>2
<1>8. /\ Chain(Pop(undoStack), Meets)
      /\ Pop(undoStack) # <<>> => <<Top(Pop(undoStack)), top>> \in Meets
  BY <1>0, <1>1, PopChains DEF Sound
<1>9. e \in Way
  BY <1>3, <1>7 DEF Way, KnowsWay
<1>10. CASE c.undone
  <2>1. /\ document' = d /\ currentStateId' = top.before
        /\ nextStateId' = nextStateId /\ meaning' = meaning
        /\ undoStack' = Pop(undoStack) /\ redoStack' = Append(redoStack, e)
    BY <1>0, <1>10 DEF UndoStep, Undone
  <2>2. Way' = Way /\ UndoWay' = UndoWay
    BY <2>1, KeepingKeepsWays
  <2>3. redoStack' \in Seq(Way) /\ redoStack' # <<>> /\ Top(redoStack') = e
    <3>1. /\ redoStack' \in Seq(Way) /\ redoStack' # <<>>
          /\ Len(redoStack') = Len(redoStack) + 1 /\ redoStack'[Len(redoStack) + 1] = e
      BY <1>1, <1>9, <2>1, AppendProperties
    <3> QED BY <3>1 DEF Top
  <2>4. Chain(redoStack, MeetsBack)'
    <3>1. redoStack # <<>> => <<Top(redoStack), e>> \in MeetsBack
      <4>1. ASSUME redoStack # <<>> PROVE Top(redoStack) \in HistoryEntry
        BY <1>4, <4>1, PopDropsTop
      <4> QED BY <1>3, <1>5, <4>1 DEF Sound, MeetsBack
    <3>2. Chain(Append(redoStack, e), MeetsBack)
      BY <1>3, <1>4, <3>1, AppendChains DEF Sound
    <3> QED BY <2>1, <3>2 DEF Chain, MeetsBack
  <2>5. undoStack' # <<>> => Top(undoStack').after = currentStateId'
    BY <1>8, <2>1 DEF Meets
  <2>6. Chain(undoStack, Meets)'
    BY <1>8, <2>1 DEF Chain, Meets
  <2>7. meaning'[currentStateId'] = Content(document')
    BY <1>7, <1>10, <2>1
  <2> QED BY <1>1, <1>3, <2>1, <2>2, <2>3, <2>4, <2>5, <2>6, <2>7 DEF Sound
<1>11. CASE ~c.undone
  <2>1. /\ document' = d /\ currentStateId' = currentStateId
        /\ nextStateId' = nextStateId /\ meaning' = meaning
        /\ undoStack' = Append(Pop(undoStack), e) /\ redoStack' = redoStack
    BY <1>0, <1>7, <1>11 DEF UndoStep, UndoRefused, KeepStateIds
  <2>2. Way' = Way /\ UndoWay' = UndoWay
    BY <2>1, KeepingKeepsWays
  <2>3. e \in UndoWay
    BY <1>3, <1>7, <1>9, <1>11 DEF UndoWay
  <2>4. undoStack' \in Seq(UndoWay) /\ Top(undoStack') = e
    <3> DEFINE p == Pop(undoStack)
    <3>1. /\ Append(p, e) \in Seq(UndoWay) /\ Len(Append(p, e)) = Len(p) + 1
          /\ Append(p, e)[Len(p) + 1] = e
      BY <1>1, <2>3, AppendProperties
    <3>2. Top(Append(p, e)) = e
      BY <3>1 DEF Top
    <3> QED BY <2>1, <3>1, <3>2
  <2>5. Chain(undoStack, Meets)'
    <3>1. Pop(undoStack) # <<>> => <<Top(Pop(undoStack)), e>> \in Meets
      BY <1>3, <1>8 DEF Meets
    <3>2. Chain(Append(Pop(undoStack), e), Meets)
      BY <1>3, <1>4, <1>8, <3>1, AppendChains
    <3> QED BY <2>1, <3>2 DEF Chain, Meets
  <2>6. Chain(redoStack, MeetsBack)'
    BY <2>1 DEF Sound, Chain, MeetsBack
  <2> QED BY <1>1, <1>3, <1>5, <1>7, <1>11, <2>1, <2>2, <2>4, <2>5, <2>6 DEF Sound
<1> QED BY <1>10, <1>11

(* A redo of a reversible command is sound: it leads to the content of the *)
(* id after once more, or is refused and changes nothing.                  *)
LEMMA RedoSound ==
  ASSUME ReversibleCommands, TypeInv, Sound,
         NEW c \in Command, NEW d \in Document, RedoStep(c, d)
  PROVE  Sound'
<1>0. PICK top, e : top = Top(redoStack) /\ e = [top EXCEPT !.command = c]
  OBVIOUS
<1>1. /\ redoStack # <<>> /\ undoStack \in Seq(UndoWay) /\ redoStack \in Seq(Way)
      /\ top \in Way /\ Pop(redoStack) \in Seq(Way)
  BY <1>0, PopDropsTop DEF RedoStep, Sound
<1>2. /\ nextStateId \in Nat /\ top \in MintedEntry(nextStateId)
      /\ top.command \in Command
      /\ meaning[top.after] \in Leads(top.command, meaning[top.before])
  BY <1>1, CommandManagerAssumption
  DEF TypeInv, TypeOK, Way, KnowsWay, MintedEntry
<1>3. /\ e \in MintedEntry(nextStateId) /\ e \in HistoryEntry /\ top \in HistoryEntry
      /\ e.command = c /\ e.before = top.before /\ e.after = top.after
      /\ top.before \in 0 .. nextStateId - 1 /\ top.after \in 0 .. nextStateId - 1
  BY <1>0, <1>2, ChangedEntry
<1>4. /\ undoStack \in Seq(HistoryEntry) /\ redoStack \in Seq(HistoryEntry)
      /\ Pop(redoStack) \in Seq(HistoryEntry)
  BY <1>1, PopDropsTop DEF TypeInv, TypeOK
<1>5. Content(document) = meaning[top.before] /\ top.before = currentStateId
  BY <1>0, <1>1 DEF Sound
<1>6. <<c, d>> \in Execute(top.command, document)
  BY <1>0 DEF RedoStep
<1>7. /\ meaning[e.after] \in Leads(c, meaning[e.before])
      /\ c.executed => Content(d) = meaning[top.after]
      /\ ~c.executed => Content(d) = meaning[top.before]
  <2>1. \A r \in Execute(top.command, document) :
          /\ meaning[top.after] \in Leads(r[1], Content(document))
          /\ Content(r[2]) = IF r[1].executed THEN meaning[top.after] ELSE Content(document)
    BY <1>2, <1>5 DEF ReversibleCommands, RedoLeadsAgain, TypeInv, TypeOK
  <2>2. LET r == <<c, d>> IN
          /\ meaning[top.after] \in Leads(r[1], Content(document))
          /\ Content(r[2]) = IF r[1].executed THEN meaning[top.after] ELSE Content(document)
    BY <1>6, <2>1
  <2> QED BY <1>3, <1>5, <2>2
<1>8. /\ Chain(Pop(redoStack), MeetsBack)
      /\ Pop(redoStack) # <<>> => <<Top(Pop(redoStack)), top>> \in MeetsBack
  BY <1>0, <1>1, PopChains DEF Sound
<1>9. e \in Way
  BY <1>3, <1>7 DEF Way, KnowsWay
<1>10. CASE c.executed
  <2>1. /\ document' = d /\ currentStateId' = top.after
        /\ nextStateId' = nextStateId /\ meaning' = meaning
        /\ redoStack' = Pop(redoStack) /\ undoStack' = Trim(Append(undoStack, e))
    BY <1>0, <1>10 DEF RedoStep, Redone, RedoneUnderOldId
  <2>2. Way' = Way /\ UndoWay' = UndoWay
    BY <2>1, KeepingKeepsWays
  <2>3. e \in UndoWay
    BY <1>3, <1>9, <1>10 DEF UndoWay
  <2>4. undoStack' \in Seq(UndoWay) /\ undoStack' # <<>> /\ Top(undoStack') = e
    BY <1>1, <2>1, <2>3, PushPutsOnTop
  <2>5. Chain(undoStack, Meets)'
    <3>1. undoStack # <<>> => <<Top(undoStack), e>> \in Meets
      <4>1. ASSUME undoStack # <<>> PROVE Top(undoStack) \in HistoryEntry
        BY <1>4, <4>1, PopDropsTop
      <4> QED BY <1>3, <1>5, <4>1 DEF Sound, Meets
    <3>2. Chain(Trim(Append(undoStack, e)), Meets)
      BY <1>3, <1>4, <3>1, PushChains DEF Sound
    <3> QED BY <2>1, <3>2 DEF Chain, Meets
  <2>6. redoStack' # <<>> => Top(redoStack').before = currentStateId'
    BY <1>8, <2>1 DEF MeetsBack
  <2>7. Chain(redoStack, MeetsBack)'
    BY <1>8, <2>1 DEF Chain, MeetsBack
  <2>8. meaning'[currentStateId'] = Content(document')
    BY <1>7, <1>10, <2>1
  <2> QED BY <1>1, <1>3, <2>1, <2>2, <2>4, <2>5, <2>6, <2>7, <2>8 DEF Sound
<1>11. CASE ~c.executed
  <2>1. /\ document' = d /\ currentStateId' = currentStateId
        /\ nextStateId' = nextStateId /\ meaning' = meaning
        /\ redoStack' = Append(Pop(redoStack), e) /\ undoStack' = undoStack
    BY <1>0, <1>11 DEF RedoStep, RedoRefused, KeepStateIds
  <2>2. Way' = Way /\ UndoWay' = UndoWay
    BY <2>1, KeepingKeepsWays
  <2>3. redoStack' \in Seq(Way) /\ Top(redoStack') = e
    <3> DEFINE p == Pop(redoStack)
    <3>1. /\ Append(p, e) \in Seq(Way) /\ Len(Append(p, e)) = Len(p) + 1
          /\ Append(p, e)[Len(p) + 1] = e
      BY <1>1, <1>9, AppendProperties
    <3>2. Top(Append(p, e)) = e
      BY <3>1 DEF Top
    <3> QED BY <2>1, <3>1, <3>2
  <2>4. Chain(redoStack, MeetsBack)'
    <3>1. Pop(redoStack) # <<>> => <<Top(Pop(redoStack)), e>> \in MeetsBack
      BY <1>3, <1>8 DEF MeetsBack
    <3>2. Chain(Append(Pop(redoStack), e), MeetsBack)
      BY <1>3, <1>4, <1>8, <3>1, AppendChains
    <3> QED BY <2>1, <3>2 DEF Chain, MeetsBack
  <2>5. Chain(undoStack, Meets)'
    BY <2>1 DEF Sound, Chain, Meets
  <2> QED BY <1>1, <1>3, <1>5, <1>7, <1>11, <2>1, <2>2, <2>3, <2>4, <2>5 DEF Sound
<1> QED BY <1>10, <1>11

(* Every step keeps soundness, if the commands are reversible.             *)
LEMMA StepSound ==
  ASSUME ReversibleCommands
  PROVE  TypeInv /\ Sound /\ [Next]_vars => Sound'
<1> SUFFICES ASSUME TypeInv, Sound, [Next]_vars PROVE Sound'
  OBVIOUS
<1>k. ASSUME nextStateId' = nextStateId, meaning' = meaning, undoStack' = undoStack,
             redoStack' = redoStack, currentStateId' = currentStateId,
             Content(document') = Content(document)
      PROVE  Sound'
  <2>1. Way' = Way /\ UndoWay' = UndoWay
    BY <1>k, KeepingKeepsWays
  <2>2. Chain(undoStack, Meets)' /\ Chain(redoStack, MeetsBack)'
    BY <1>k DEF Sound, Chain, Meets, MeetsBack
  <2> QED BY <1>k, <2>1, <2>2 DEF Sound
<1>1. ASSUME NEW b \in NewCommand, NEW c \in Command, NEW d \in Document, ExecuteStep(b, c, d)
      PROVE  Sound'
  <2>1. CASE c.executed
    BY <1>1, <2>1, AcceptSound DEF ExecuteStep
  <2>2. CASE ~c.executed
    <3>1. \A r \in Execute(b, document) :
            IF r[1].executed THEN Content(r[2]) \in Leads(r[1], Content(document))
                             ELSE Content(r[2]) = Content(document)
      BY DEF ReversibleCommands, FirstCallLeads, TypeInv, TypeOK
    <3>2. LET r == <<c, d>> IN
            IF r[1].executed THEN Content(r[2]) \in Leads(r[1], Content(document))
                             ELSE Content(r[2]) = Content(document)
      BY <1>1, <3>1 DEF ExecuteStep
    <3>3. Content(d) = Content(document)
      BY <2>2, <3>2
    <3> QED BY <1>1, <1>k, <2>2, <3>3 DEF ExecuteStep, Reject, KeepStateIds
  <2> QED BY <2>1, <2>2
<1>2. ASSUME NEW d \in InitialDocument, ClearHistory(d)
      PROVE  Sound'
  <2>1. /\ undoStack' = <<>> /\ redoStack' = <<>> /\ nextStateId' = 1 /\ currentStateId' = 0
        /\ document' = d /\ meaning' = [id \in {0} |-> Content(d)]
    BY <1>2 DEF ClearHistory
  <2>2. \A id \in 0 .. nextStateId' - 1 : meaning'[id] \in Contents
    <3>1. \A id \in 0 .. nextStateId' - 1 : id = 0
      BY <2>1
    <3>2. meaning'[0] = Content(d) /\ d \in Document
      BY <2>1, CommandManagerAssumption
    <3> QED BY <3>1, <3>2 DEF Contents
  <2>3. undoStack' \in Seq(UndoWay') /\ redoStack' \in Seq(Way')
    BY <2>1
  <2>4. Chain(undoStack, Meets)' /\ Chain(redoStack, MeetsBack)'
    BY <2>1 DEF Chain
  <2> QED BY <2>1, <2>2, <2>3, <2>4 DEF Sound
<1>3. ASSUME EditElsewhere
      PROVE  Sound'
  <2>1. Content(document') = Content(document)
    BY <1>3 DEF EditElsewhere, ReversibleCommands, TypeInv, TypeOK
  <2> QED BY <1>3, <1>k, <2>1 DEF EditElsewhere
<1>4. ASSUME UNCHANGED vars
      PROVE  Sound'
  BY <1>4, <1>k DEF vars
<1> QED BY <1>1, <1>2, <1>3, <1>4, UndoSound, RedoSound, StepCases DEF TypeInv

(* THEOREM: if the commands are reversible, a state id always names the    *)
(* content it was first reported with, so that the document may be called  *)
(* clean when the id is the id of the last save.                           *)
THEOREM StateIdsNameContents ==
  ASSUME ReversibleCommands
  PROVE  Spec => []StateIdNamesContent
<1>1. TypeInv /\ Sound => StateIdNamesContent
  BY SoundSuffices
<1>2. Spec => [](TypeInv /\ Sound)
  BY InitTyped, StepTyped, InitSound, StepSound, PTL DEF Spec
<1> QED BY <1>1, <1>2, PTL

(* THEOREM: the entries of the two stacks then meet one another and the    *)
(* current state, so that undo and redo walk through the same states.      *)
THEOREM StacksAlwaysMeet ==
  ASSUME ReversibleCommands
  PROVE  Spec => []StacksMeet
<1>1. TypeInv /\ Sound => StacksMeet
  BY SoundSuffices
<1>2. Spec => [](TypeInv /\ Sound)
  BY InitTyped, StepTyped, InitSound, StepSound, PTL DEF Spec
<1> QED BY <1>1, <1>2, PTL

(* THEOREM: every entry of the undo stack then counts as executed, so that *)
(* undo() calls its command and does not judge it by an old flag.          *)
THEOREM UndoAlwaysReachesCommand ==
  ASSUME ReversibleCommands
  PROVE  Spec => []UndoReachesCommand
<1>1. TypeInv /\ Sound => UndoReachesCommand
  BY SoundSuffices
<1>2. Spec => [](TypeInv /\ Sound)
  BY InitTyped, StepTyped, InitSound, StepSound, PTL DEF Spec
<1> QED BY <1>1, <1>2, PTL

-----------------------------------------------------------------------------
(* The instance commands.                                                  *)

(* What is saved of a document is its list.                                *)
LEMMA ContentIsList ==
  /\ \A d \in Document : Content(d) = d.records /\ Content(d) \in Lists
  /\ Contents \subseteq Lists
<1>1. \A d \in Document : Content(d) = d.records /\ Content(d) \in Lists
  BY InstanceHistoryAssumption, DocumentParts DEF RecordsOf
<1> QED BY <1>1 DEF Contents

(* A first call that succeeds leads to the new content, and remembers how. *)
LEMMA FirstLeads == FirstCallLeads
<1> SUFFICES ASSUME NEW c \in NewCommand, NEW d \in Document, NEW q \in Execute(c, d)
             PROVE  IF q[1].executed THEN Content(q[2]) \in Leads(q[1], Content(d))
                                     ELSE Content(q[2]) = Content(d)
  BY DEF FirstCallLeads
<1>1. PICK r, e : r = q[1] /\ e = q[2]
  OBVIOUS
<1>2. c \in Commands /\ c \in NewCommands /\ d \in Documents
  BY InstanceHistoryAssumption, CommandManagerAssumption
<1>3. q \in ExecuteInstanceCommand(c, d)
  BY <1>2, InstanceHistoryAssumption
<1>4. d.records \in Lists /\ Content(d) = d.records
  BY ContentIsList
<1>5. CASE c.kind = "add" /\ c.created = NoRecord
  <2>1. <<r, e>> = AddFirst(c, d)
    BY <1>1, <1>3, <1>5, OutcomesArePairs DEF ExecuteInstanceCommand, AddExecute
  <2>2. /\ r \in Commands /\ e \in Documents /\ r.kind = "add"
        /\ \/ r.executed = TRUE /\ Created(c, d, r, e)
           \/ r.executed = FALSE /\ e = d
    BY <1>2, <1>5, <2>1, AddFirstOutcome
  <2>3. CASE r.executed = TRUE /\ Created(c, d, r, e)
    <3>1. /\ r.created \in Records /\ CanInsert(d.records, r.created) /\ Room(d.records)
          /\ r.position = Len(d.records) + 1
          /\ e.records = InsertAt(d.records, r.position, r.created)
      BY <2>3 DEF Created
    <3>2. r.created # NoRecord /\ r.position \in 1 .. Len(d.records) + 1
      BY <1>4, <3>1, ListParts, InstanceCommandsAssumption
    <3>3. e.records \in LeadsFrom(r, d.records)
      BY <1>4, <2>2, <3>1, <3>2, AddLeads
    <3>4. Leads(r, d.records) = LeadsFrom(r, d.records)
      BY <1>2, <2>2, InstanceHistoryAssumption
    <3>5. Content(e) = e.records
      BY <2>2, ContentIsList, InstanceHistoryAssumption
    <3> QED BY <1>1, <1>4, <2>3, <3>3, <3>4, <3>5
  <2>4. CASE r.executed = FALSE /\ e = d
    BY <1>1, <2>4
  <2> QED BY <2>2, <2>3, <2>4
<1>6. CASE c.kind = "set"
  <2>1. <<r, e>> = SetExecute(c, d)
    BY <1>1, <1>3, <1>6, OutcomesArePairs DEF ExecuteInstanceCommand
  <2>2. /\ r \in Commands /\ e \in Documents /\ Noted(c, d, r)
        /\ \/ r.executed = TRUE /\ Written(c, d, r, e)
           \/ r.executed = FALSE /\ NotWritten(c, d, r, e)
    BY <1>2, <1>6, <2>1, SetExecuteOutcome
  <2>3. CASE r.executed = TRUE /\ Written(c, d, r, e)
    <3>1. e.records \in LeadsFrom(r, d.records)
      BY <1>4, <2>2, <2>3, SetLeads DEF Noted, Written
    <3>2. Leads(r, d.records) = LeadsFrom(r, d.records)
      BY <1>2, <2>2, InstanceHistoryAssumption
    <3>3. Content(e) = e.records
      BY <2>2, ContentIsList, InstanceHistoryAssumption
    <3> QED BY <1>1, <1>4, <2>3, <3>1, <3>2, <3>3
  <2>4. CASE r.executed = FALSE /\ NotWritten(c, d, r, e)
    BY <1>1, <2>4 DEF NotWritten
  <2> QED BY <2>2, <2>3, <2>4
<1> QED BY <1>2, <1>5, <1>6, NewCommandsAreBlank

(* An undo from where a command led to leads back to where it came from:   *)
(* the record is where it was inserted, and the old value is written back. *)
LEMMA UndoLeads == UndoLeadsBack
<1> SUFFICES ASSUME NEW c \in Command, NEW x \in Contents, NEW y \in Leads(c, x),
                    NEW d \in Document, c.executed, Content(d) = y, NEW q \in Undo(c, d)
             PROVE  /\ y \in Leads(q[1], x)
                    /\ IF q[1].undone THEN Content(q[2]) = x
                       ELSE q[1].executed /\ ~q[1].tore /\ Content(q[2]) = y
  BY DEF UndoLeadsBack
<1>1. PICK r, e : r = q[1] /\ e = q[2]
  OBVIOUS
<1>2. c \in Commands /\ d \in Documents
  BY InstanceHistoryAssumption
<1>3. q \in UndoInstanceCommand(c, d)
  BY <1>2, InstanceHistoryAssumption
<1>4. /\ x \in Lists /\ x \in Seq(Records) /\ DistinctRefs(x) /\ Len(x) \in Nat
      /\ y = d.records /\ y \in Lists
  BY ContentIsList, ListParts
<1>5. ASSUME NEW k \in Commands PROVE Leads(k, x) = LeadsFrom(k, x)
  <2>1. PICK w \in Documents : x = w.records
    BY ContentIsList, InstanceHistoryAssumption DEF Contents
  <2> QED BY <2>1, InstanceHistoryAssumption
<1>6. y \in LeadsFrom(c, x)
  BY <1>2, <1>5
<1>7. CASE c.kind = "add"
  <2>1. <<r, e>> = AddUndo(c, d)
    BY <1>1, <1>3, <1>7, OutcomesArePairs DEF UndoInstanceCommand
  <2>2. /\ c.created # NoRecord /\ CanInsert(x, c.created) /\ Room(x)
        /\ c.position \in 1 .. Len(x) + 1
        /\ y = InsertAt(x, c.position, c.created)
    BY <1>2, <1>4, <1>6, <1>7, AddLeads
  <2>3. c.created \in Records
    <3>1. "add" # "set"
      OBVIOUS
    <3>2. c \in AddCommands
      BY <1>2, <1>7, <3>1, KindsOfCommands
    <3> QED BY <2>2, <3>2, CreatedIsRecord
  <2>4. /\ IndexOfRecord(y, Ref(c.created)) = c.position
        /\ HasRecord(y, Ref(c.created))
    <3>1. ~HasRecord(x, Ref(c.created))
      BY <2>2 DEF CanInsert
    <3> QED BY <1>4, <2>2, <2>3, <3>1, AfterInsert
  <2>5. TakeRecord(y, Ref(c.created)) = x
    BY <1>4, <2>2, <2>3, <2>4, InsertThenRemove DEF TakeRecord
  <2>6. /\ r \in Commands /\ e \in Documents /\ SameMemory(r, c) /\ r.executed = c.executed
        /\ \/ /\ r.undone = TRUE
              /\ c.created # NoRecord /\ HasRecord(d.records, Ref(c.created))
              /\ e.records = TakeRecord(d.records, Ref(c.created))
              /\ SelectionIn(e)
           \/ /\ r.undone = FALSE /\ e = d
              /\ ~(c.created # NoRecord /\ HasRecord(d.records, Ref(c.created)))
    BY <1>2, <1>7, <2>1, AddUndoOutcome
  <2>7. r.undone = TRUE /\ e.records = x
    BY <1>4, <2>2, <2>4, <2>5, <2>6
  <2>8. y \in LeadsFrom(r, x)
    BY <1>2, <1>6, <2>6, SameWay
  <2>9. Content(e) = e.records
    BY <2>6, ContentIsList, InstanceHistoryAssumption
  <2> QED BY <1>1, <1>5, <2>6, <2>7, <2>8, <2>9
<1>8. CASE c.kind = "set"
  <2>1. <<r, e>> = SetUndo(c, d)
    <3>1. "add" # "set"
      OBVIOUS
    <3> QED BY <1>1, <1>3, <1>8, <3>1, OutcomesArePairs DEF UndoInstanceCommand
  <2>2. /\ HasRecord(x, c.ref) /\ c.old = ParameterOf(x, c.ref) /\ c.old # c.new
        /\ y = SetParameter(x, c.ref, c.new)
    BY <1>2, <1>4, <1>6, <1>8, SetLeads
  <2>3. HasRecord(y, c.ref) /\ SetParameter(y, c.ref, c.old) = x
    BY <1>2, <1>4, <1>8, <2>2, AfterSet, SetFields
  <2>4. /\ r \in Commands /\ e \in Documents /\ SameMemory(r, c) /\ r.executed = c.executed
        /\ \/ r.undone = TRUE /\ WrittenBack(c, d, e)
           \/ r.undone = FALSE /\ e = d /\ ~HasRecord(d.records, c.ref)
    BY <1>2, <1>8, <2>1, SetUndoOutcome
  <2>5. r.undone = TRUE /\ e.records = x
    BY <1>4, <2>3, <2>4 DEF WrittenBack
  <2>6. y \in LeadsFrom(r, x)
    BY <1>2, <1>6, <2>4, SameWay
  <2>7. Content(e) = e.records
    BY <2>4, ContentIsList, InstanceHistoryAssumption
  <2> QED BY <1>1, <1>5, <2>4, <2>5, <2>6, <2>7
<1> QED BY <1>2, <1>7, <1>8, KindsOfCommands

(* A command that leads from the current content to y leads there again.   *)
LEMMA RedoLeads == RedoLeadsAgain
<1> SUFFICES ASSUME NEW c \in Command, NEW d \in Document, NEW y \in Leads(c, Content(d)),
                    NEW q \in Execute(c, d)
             PROVE  /\ y \in Leads(q[1], Content(d))
                    /\ Content(q[2]) = IF q[1].executed THEN y ELSE Content(d)
  BY DEF RedoLeadsAgain
<1> DEFINE x == d.records
<1>1. PICK r, e : r = q[1] /\ e = q[2]
  OBVIOUS
<1>2. c \in Commands /\ d \in Documents
  BY InstanceHistoryAssumption
<1>3. q \in ExecuteInstanceCommand(c, d)
  BY <1>2, InstanceHistoryAssumption
<1>4. x \in Lists /\ Content(d) = x
  BY ContentIsList
<1>5. ASSUME NEW k \in Commands PROVE Leads(k, x) = LeadsFrom(k, x)
  BY <1>2, InstanceHistoryAssumption
<1>6. y \in LeadsFrom(c, x)
  BY <1>2, <1>4, <1>5
<1>7. CASE c.kind = "add"
  <2>1. /\ c.created # NoRecord /\ CanInsert(x, c.created) /\ Room(x)
        /\ c.position \in 1 .. Len(x) + 1
        /\ y = InsertAt(x, c.position, c.created)
    BY <1>2, <1>4, <1>6, <1>7, AddLeads
  <2>2. <<r, e>> = AddAgain(c, d)
    BY <1>1, <1>3, <1>7, <2>1, OutcomesArePairs DEF ExecuteInstanceCommand, AddExecute
  <2>3. /\ r \in Commands /\ e \in Documents /\ SameMemory(r, c)
        /\ \/ /\ r.executed = TRUE
              /\ CanInsert(d.records, c.created) /\ Room(d.records)
              /\ e.records = InsertRecord(d.records, c.position, c.created)
              /\ SelectionIn(e)
           \/ /\ r.executed = FALSE /\ e = d
              /\ ~(CanInsert(d.records, c.created) /\ Room(d.records))
    BY <1>2, <1>7, <2>1, <2>2, AddAgainOutcome
  <2>4. InsertRecord(x, c.position, c.created) = y
    <3>1. c.position \in Int /\ x \in Seq(Records)
      BY <1>4, <2>1, ListParts
    <3> QED BY <2>1, <3>1, ClampedInsert
  <2>5. r.executed = TRUE /\ e.records = y
    BY <2>1, <2>3, <2>4
  <2>6. y \in LeadsFrom(r, x)
    BY <1>2, <1>6, <2>3, SameWay
  <2>7. Content(e) = e.records
    BY <2>3, ContentIsList, InstanceHistoryAssumption
  <2> QED BY <1>1, <1>4, <1>5, <2>3, <2>5, <2>6, <2>7
<1>8. CASE c.kind = "set"
  <2>1. <<r, e>> = SetExecute(c, d)
    <3>1. "add" # "set"
      OBVIOUS
    <3> QED BY <1>1, <1>3, <1>8, <3>1, OutcomesArePairs DEF ExecuteInstanceCommand
  <2>2. /\ HasRecord(x, c.ref) /\ c.old = ParameterOf(x, c.ref) /\ c.old # c.new
        /\ y = SetParameter(x, c.ref, c.new)
    BY <1>2, <1>4, <1>6, <1>8, SetLeads
  <2>3. /\ r \in Commands /\ e \in Documents /\ Noted(c, d, r)
        /\ \/ r.executed = TRUE /\ Written(c, d, r, e)
           \/ r.executed = FALSE /\ NotWritten(c, d, r, e)
    BY <1>2, <1>8, <2>1, SetExecuteOutcome
  <2>4. r.kind = "set" /\ r.ref = c.ref /\ r.new = c.new /\ r.old = c.old
    BY <2>2, <2>3 DEF Noted
  <2>5. r.executed = TRUE /\ e.records = y
    BY <2>2, <2>3, <2>4 DEF Written, NotWritten
  <2>6. y \in LeadsFrom(r, x)
    BY <1>4, <2>2, <2>3, <2>4, SetLeads
  <2>7. Content(e) = e.records
    BY <2>3, ContentIsList, InstanceHistoryAssumption
  <2> QED BY <1>1, <1>4, <1>5, <2>3, <2>5, <2>6, <2>7
<1> QED BY <1>2, <1>7, <1>8, KindsOfCommands

(* THEOREM: the commands of the editor are reversible, whatever the        *)
(* catalog: what the first part assumes of the commands of a history holds *)
(* of the ones that are recorded in it.                                    *)
THEOREM InstanceCommandsAreReversible == ReversibleCommands
<1>1. ASSUME NEW d \in Document, NEW e \in Elsewhere(d)
      PROVE  Content(e) = Content(d)
  <2>1. d \in Documents /\ e \in SelectInstance(d) /\ e \in Document
    BY InstanceHistoryAssumption, CommandManagerAssumption
  <2>2. PICK ref : e = [d EXCEPT !.selected = ref]
    BY <2>1 DEF SelectInstance
  <2>3. d = [records |-> d.records, selected |-> d.selected]
    BY <2>1 DEF Documents
  <2>4. e.records = d.records
    BY <2>2, <2>3
  <2> QED BY <2>1, <2>4, ContentIsList
<1> QED BY <1>1, FirstLeads, UndoLeads, RedoLeads DEF ReversibleCommands

-----------------------------------------------------------------------------
(* How many records are of the cores in K, which is what the limits count. *)
OfCores(s, K) == {i \in DOMAIN s : s[i].core \in K}

Amount(s, K) == Cardinality(OfCores(s, K))

Limiting(scope) == {c \in Cores : LimitsScope(c, scope)}

Matching(scope) == {c \in Cores : LimitsScope(c, scope) \/ scope = KindScope[c]}

LEMMA CountsAreAmounts ==
  ASSUME NEW s \in Seq(Records)
  PROVE  /\ \A c : CountFor(s, LAMBDA r : r.core = c) = Amount(s, {c})
         /\ \A scope : CountFor(s, LAMBDA r : LimitsScope(r.core, scope)) = Amount(s, Limiting(scope))
         /\ \A scope : CountFor(s, LAMBDA r : MatchesScope(r, scope)) = Amount(s, Matching(scope))
<1>1. \A i \in DOMAIN s : s[i].core \in Cores
  <2>1. \A i \in DOMAIN s : s[i] \in Records
    BY LenProperties, ElementOfSeq
  <2> QED BY <2>1 DEF Records
<1>2. ASSUME NEW c PROVE CountFor(s, LAMBDA r : r.core = c) = Amount(s, {c})
  <2>1. {i \in DOMAIN s : s[i].core = c} = OfCores(s, {c})
    BY DEF OfCores
  <2> QED BY <2>1 DEF CountFor, Amount
<1>3. ASSUME NEW scope
      PROVE  CountFor(s, LAMBDA r : LimitsScope(r.core, scope)) = Amount(s, Limiting(scope))
  <2>1. {i \in DOMAIN s : LimitsScope(s[i].core, scope)} = OfCores(s, Limiting(scope))
    BY <1>1 DEF OfCores, Limiting
  <2> QED BY <2>1 DEF CountFor, Amount
<1>4. ASSUME NEW scope
      PROVE  CountFor(s, LAMBDA r : MatchesScope(r, scope)) = Amount(s, Matching(scope))
  <2>1. {i \in DOMAIN s : MatchesScope(s[i], scope)} = OfCores(s, Matching(scope))
    BY <1>1 DEF OfCores, Matching, MatchesScope
  <2> QED BY <2>1 DEF CountFor, Amount
<1> QED BY <1>2, <1>3, <1>4

(* More cores, no fewer records; and only finitely many either way.        *)
LEMMA AmountMonotonic ==
  ASSUME NEW s \in Seq(Records), NEW K, NEW L, K \subseteq L
  PROVE  /\ IsFiniteSet(OfCores(s, L))
         /\ Amount(s, K) \in Nat /\ Amount(s, L) \in Nat /\ Amount(s, K) <= Amount(s, L)
<1>1. PICK n \in Nat : n = Len(s) /\ DOMAIN s = 1 .. n
  BY LenProperties
<1>2. IsFiniteSet(1 .. n)
  BY FS_Interval
<1>3. OfCores(s, L) \subseteq 1 .. n /\ OfCores(s, K) \subseteq OfCores(s, L)
  BY <1>1 DEF OfCores
<1>4. IsFiniteSet(OfCores(s, L))
  BY <1>2, <1>3, FS_Subset
<1>5. IsFiniteSet(OfCores(s, K)) /\ Amount(s, K) <= Amount(s, L)
  BY <1>3, <1>4, FS_Subset DEF Amount
<1>6. Amount(s, K) \in Nat /\ Amount(s, L) \in Nat
  BY <1>4, <1>5, FS_CardinalityType DEF Amount
<1> QED BY <1>4, <1>5, <1>6

(* A record at the end adds one to the amounts it counts for.              *)
LEMMA AmountAfterInsert ==
  ASSUME NEW s \in Seq(Records), NEW r \in Records, NEW t \in Seq(Records),
         WithElementAt(t, s, Len(s) + 1, r), NEW K
  PROVE  Amount(t, K) = IF r.core \in K THEN Amount(s, K) + 1 ELSE Amount(s, K)
<1>1. PICK n \in Nat : n = Len(s) /\ DOMAIN s = 1 .. n
  BY LenProperties
<1>2. Len(t) = n + 1 /\ t[n + 1] = r /\ \A i \in 1 .. n : t[i] = s[i]
  BY <1>1 DEF WithElementAt
<1>3. DOMAIN t = 1 .. n + 1
  BY <1>2, LenProperties
<1>4. IsFiniteSet(OfCores(s, K)) /\ n + 1 \notin OfCores(s, K)
  <2>1. IsFiniteSet(OfCores(s, K))
    BY AmountMonotonic
  <2>2. n + 1 \notin OfCores(s, K)
    BY <1>1 DEF OfCores
  <2> QED BY <2>1, <2>2
<1>5. CASE r.core \in K
  <2>1. OfCores(t, K) = OfCores(s, K) \cup {n + 1}
    BY <1>1, <1>2, <1>3, <1>5 DEF OfCores
  <2> QED BY <1>4, <1>5, <2>1, FS_AddElement DEF Amount
<1>6. CASE r.core \notin K
  <2>1. OfCores(t, K) = OfCores(s, K)
    BY <1>1, <1>2, <1>3, <1>6 DEF OfCores
  <2> QED BY <1>6, <2>1 DEF Amount
<1> QED BY <1>5, <1>6

(* The limits, in terms of amounts.                                        *)
LEMMA CatalogInAmounts ==
  ASSUME NEW s \in Seq(Records)
  PROVE  WithinCatalog(s) <=>
           /\ \A c \in Cores :
                CoreLimit[c] # Unlimited /\ CoreLimit[c] >= 0 => Amount(s, {c}) <= CoreLimit[c]
           /\ \A i \in DOMAIN s : \A scope \in DOMAIN ScopeLimits[s[i].core] :
                LimitsScope(s[i].core, scope) =>
                  \E c \in Cores :
                    LimitsScope(c, scope) /\ Amount(s, Limiting(scope)) <= ScopeLimits[c][scope]
BY CountsAreAmounts, Zenon DEF WithinCatalog

LEMMA LimitsInAmounts ==
  ASSUME NEW s \in Seq(Records), NEW c \in Cores
  PROVE  WithinLimits(s, c) <=>
           /\ \/ CoreLimit[c] = Unlimited
              \/ CoreLimit[c] > 0 /\ Amount(s, {c}) < CoreLimit[c]
           /\ \A scope \in DOMAIN ScopeLimits[c] :
                LimitsScope(c, scope) => Amount(s, Matching(scope)) < ScopeLimits[c][scope]
BY CountsAreAmounts, Zenon DEF WithinLimits

-----------------------------------------------------------------------------
(* The rules of a record list.                                             *)
Keeps(s) == UniqueIds(s) /\ WithinCatalog(s)

(* A creation keeps them: the id is fresh, and the limits were checked for *)
(* the list without the record.                                            *)
LEMMA CreationKeeps ==
  ASSUME NEW s \in Seq(Records), Keeps(s), NEW c \in Cores, WithinLimits(s, c),
         NEW r \in Records, r = DefaultRecord(c, NextInstanceId(s, c)),
         NEW t, t = InsertAt(s, Len(s) + 1, r)
  PROVE  Keeps(t)
<1>1. PICK n \in Nat : n = Len(s) /\ DOMAIN s = 1 .. n
  BY LenProperties
<1>2. t \in Seq(Records) /\ WithElementAt(t, s, Len(s) + 1, r)
  <2>1. Len(s) + 1 \in 1 .. Len(s) + 1
    BY <1>1
  <2> QED BY <2>1, Inserted
<1>3. Len(t) = n + 1 /\ t[n + 1] = r /\ \A i \in 1 .. n : t[i] = s[i]
  BY <1>1, <1>2 DEF WithElementAt
<1>4. DOMAIN t = 1 .. n + 1
  BY <1>2, <1>3, LenProperties
<1>5. r.core = c /\ r.inst = NextInstanceId(s, c)
  BY DEF DefaultRecord
<1>6. \A K : Amount(t, K) = IF c \in K THEN Amount(s, K) + 1 ELSE Amount(s, K)
  BY <1>2, <1>5, AmountAfterInsert
<1>7. \A K, L : K \subseteq L =>
        Amount(s, K) \in Nat /\ Amount(s, L) \in Nat /\ Amount(s, K) <= Amount(s, L)
  BY AmountMonotonic
<1>8. UniqueIds(t)
  <2>1. \A i \in 1 .. n : s[i].inst # r.inst
    BY <1>1, <1>5, NextIdFresh
  <2>2. \A i, j \in 1 .. n : s[i].inst = s[j].inst => i = j
    BY <1>1 DEF Keeps, UniqueIds
  <2> SUFFICES ASSUME NEW i \in 1 .. n + 1, NEW j \in 1 .. n + 1, t[i].inst = t[j].inst
               PROVE  i = j
    BY <1>4 DEF UniqueIds
  <2>3. \A k \in 1 .. n + 1 : k = n + 1 \/ k \in 1 .. n
    OBVIOUS
  <2>4. CASE i = n + 1 \/ j = n + 1
    BY <1>3, <2>1, <2>3, <2>4
  <2>5. CASE i \in 1 .. n /\ j \in 1 .. n
    BY <1>3, <2>2, <2>5
  <2> QED BY <2>3, <2>4, <2>5
<1>9. ASSUME NEW k \in Cores, CoreLimit[k] # Unlimited, CoreLimit[k] >= 0
      PROVE  Amount(t, {k}) <= CoreLimit[k]
  <2>1. Amount(s, {k}) <= CoreLimit[k] /\ Amount(s, {k}) \in Nat /\ CoreLimit[k] \in Int
    BY <1>7, <1>9, CatalogInAmounts, ProjectInstancesAssumption DEF Keeps
  <2>2. CASE k = c
    <3>1. Amount(s, {c}) < CoreLimit[c]
      BY <1>9, <2>2, LimitsInAmounts
    <3>2. Amount(t, {c}) = Amount(s, {c}) + 1
      BY <1>6
    <3> QED BY <2>1, <2>2, <3>1, <3>2
  <2>3. CASE k # c
    <3>1. Amount(t, {k}) = Amount(s, {k})
      BY <1>6, <2>3
    <3> QED BY <2>1, <3>1
  <2> QED BY <2>2, <2>3
<1>10. ASSUME NEW i \in 1 .. n + 1, NEW scope \in DOMAIN ScopeLimits[t[i].core],
              LimitsScope(t[i].core, scope)
       PROVE  \E k \in Cores :
                LimitsScope(k, scope) /\ Amount(t, Limiting(scope)) <= ScopeLimits[k][scope]
  <2>1. CASE LimitsScope(c, scope)
    <3>1. scope \in DOMAIN ScopeLimits[c] /\ ScopeLimits[c][scope] \in Int
      BY <2>1, ProjectInstancesAssumption DEF LimitsScope
    <3>2. Amount(s, Matching(scope)) < ScopeLimits[c][scope]
      BY <2>1, <3>1, LimitsInAmounts
    <3>3. Limiting(scope) \subseteq Matching(scope) /\ c \in Limiting(scope)
      BY <2>1 DEF Limiting, Matching
    <3>4. Amount(t, Limiting(scope)) = Amount(s, Limiting(scope)) + 1
      BY <1>6, <3>3
    <3>5. /\ Amount(s, Limiting(scope)) \in Nat /\ Amount(s, Matching(scope)) \in Nat
          /\ Amount(s, Limiting(scope)) <= Amount(s, Matching(scope))
      BY <1>7, <3>3
    <3>6. Amount(t, Limiting(scope)) <= ScopeLimits[c][scope]
      BY <3>1, <3>2, <3>4, <3>5
    <3> QED BY <2>1, <3>6
  <2>2. CASE ~LimitsScope(c, scope)
    <3>1. i \in 1 .. n /\ t[i] = s[i]
      <4>1. i # n + 1
        BY <1>3, <1>5, <1>10, <2>2
      <4>2. i \in 1 .. n
        BY <4>1
      <4> QED BY <1>3, <4>2
    <3>2. PICK k \in Cores :
            LimitsScope(k, scope) /\ Amount(s, Limiting(scope)) <= ScopeLimits[k][scope]
      BY <1>1, <1>10, <3>1, CatalogInAmounts DEF Keeps
    <3>3. Amount(t, Limiting(scope)) = Amount(s, Limiting(scope))
      <4>1. c \notin Limiting(scope)
        BY <2>2 DEF Limiting
      <4> QED BY <1>6, <4>1
    <3> QED BY <3>2, <3>3
  <2> QED BY <2>1, <2>2
<1>11. WithinCatalog(t)
  BY <1>2, <1>4, <1>9, <1>10, CatalogInAmounts
<1> QED BY <1>8, <1>11 DEF Keeps

(* So does a change that leaves cores and ids alone.                       *)
LEMMA SameRecordsKeep ==
  ASSUME NEW s \in Seq(Records), Keeps(s), NEW t \in Seq(Records), Len(t) = Len(s),
         \A i \in 1 .. Len(s) : t[i].core = s[i].core /\ t[i].inst = s[i].inst
  PROVE  Keeps(t)
<1>1. DOMAIN s = 1 .. Len(s) /\ DOMAIN t = 1 .. Len(s)
  BY LenProperties
<1>2. UniqueIds(t)
  BY <1>1 DEF Keeps, UniqueIds
<1>3. \A K : Amount(t, K) = Amount(s, K)
  <2>1. ASSUME NEW K PROVE OfCores(t, K) = OfCores(s, K)
    BY <1>1 DEF OfCores
  <2> QED BY <2>1 DEF Amount
<1>4. WithinCatalog(t)
  <2>1. /\ \A c \in Cores :
             CoreLimit[c] # Unlimited /\ CoreLimit[c] >= 0 => Amount(s, {c}) <= CoreLimit[c]
        /\ \A i \in DOMAIN s : \A scope \in DOMAIN ScopeLimits[s[i].core] :
             LimitsScope(s[i].core, scope) =>
               \E c \in Cores :
                 LimitsScope(c, scope) /\ Amount(s, Limiting(scope)) <= ScopeLimits[c][scope]
    BY CatalogInAmounts DEF Keeps
  <2>2. /\ \A c \in Cores :
             CoreLimit[c] # Unlimited /\ CoreLimit[c] >= 0 => Amount(t, {c}) <= CoreLimit[c]
        /\ \A i \in DOMAIN t : \A scope \in DOMAIN ScopeLimits[t[i].core] :
             LimitsScope(t[i].core, scope) =>
               \E c \in Cores :
                 LimitsScope(c, scope) /\ Amount(t, Limiting(scope)) <= ScopeLimits[c][scope]
    BY <1>1, <1>3, <2>1
  <2> QED BY <2>2, CatalogInAmounts
<1> QED BY <1>2, <1>4 DEF Keeps

(* A command executed for the first time keeps the rules.                  *)
LEMMA FirstCallKeeps ==
  ASSUME NEW b \in NewCommand, NEW w \in Document, Keeps(Content(w)),
         NEW c \in Command, NEW d \in Document, <<c, d>> \in Execute(b, w), c.executed
  PROVE  Keeps(Content(d))
<1> DEFINE x == w.records
<1>1. b \in Commands /\ b \in NewCommands /\ w \in Documents
  BY InstanceHistoryAssumption, CommandManagerAssumption
<1>2. <<c, d>> \in ExecuteInstanceCommand(b, w)
  BY <1>1, InstanceHistoryAssumption
<1>3. /\ x \in Seq(Records) /\ DistinctRefs(x) /\ Len(x) \in Nat
      /\ Content(w) = x /\ Content(d) = d.records /\ d.records \in Seq(Records)
  BY ContentIsList, ListParts
<1>4. CASE b.kind = "add" /\ b.created = NoRecord
  <2>1. <<c, d>> = AddFirst(b, w)
    BY <1>2, <1>4 DEF ExecuteInstanceCommand, AddExecute
  <2>2. Created(b, w, c, d)
    BY <1>1, <1>4, <2>1, AddFirstOutcome
  <2>3. b.core \in Cores
    <3>1. "add" # "set"
      OBVIOUS
    <3>2. b \in AddCommands
      BY <1>1, <1>4, <3>1, KindsOfCommands
    <3> QED BY <3>2, CreatedIsRecord
  <2> DEFINE r == DefaultRecord(b.core, NextInstanceId(x, b.core))
  <2>4. r \in Records /\ WithinLimits(x, b.core) /\ d.records = InsertAt(x, Len(x) + 1, r)
    BY <2>2 DEF Created
  <2> QED BY <1>3, <2>3, <2>4, CreationKeeps
<1>5. CASE b.kind = "set"
  <2>1. <<c, d>> = SetExecute(b, w)
    <3>1. "add" # "set"
      OBVIOUS
    <3> QED BY <1>2, <1>5, <3>1 DEF ExecuteInstanceCommand
  <2>2. Written(b, w, c, d)
    BY <1>1, <1>5, <2>1, SetExecuteOutcome
  <2>3. HasRecord(x, b.ref) /\ d.records = SetParameter(x, b.ref, b.new) /\ b.new \in Values \cup {NoValue}
    BY <1>1, <1>5, <2>2, SetFields DEF Written
  <2>4. /\ Len(d.records) = Len(x)
        /\ \A i \in 1 .. Len(x) : d.records[i].core = x[i].core /\ d.records[i].inst = x[i].inst
    BY <1>3, <2>3, AfterSet
  <2> QED BY <1>3, <2>4, SameRecordsKeep
<1> QED BY <1>1, <1>4, <1>5, NewCommandsAreBlank

(* Every content a state id was ever minted for keeps the rules.  Undo and *)
(* redo check nothing: they keep them because they go back to such a       *)
(* content.                                                                *)
MeaningsKeep == \A id \in 0 .. nextStateId - 1 : Keeps(meaning[id])

LEMMA FreshStartKeeps ==
  ASSUME NEW d \in InitialDocument
  PROVE  Keeps(Content(d)) /\ SelectionIn(d)
<1>1. d \in Document
  BY CommandManagerAssumption
<1> QED BY <1>1, OpenedProjectsAssumption, ContentIsList DEF Keeps

LEMMA InitKeeps == Init => MeaningsKeep
<1> SUFFICES ASSUME Init PROVE MeaningsKeep
  OBVIOUS
<1>1. meaning[0] = Content(document) /\ document \in InitialDocument /\ nextStateId = 1
  BY DEF Init
<1>2. \A id \in 0 .. nextStateId - 1 : id = 0
  BY <1>1
<1> QED BY <1>1, <1>2, FreshStartKeeps DEF MeaningsKeep

LEMMA StepKeeps == TypeInv /\ Sound /\ MeaningsKeep /\ [Next]_vars => MeaningsKeep'
<1> SUFFICES ASSUME TypeInv, Sound, MeaningsKeep, [Next]_vars PROVE MeaningsKeep'
  OBVIOUS
<1>t. TypeOK /\ document \in Document
  BY DEF TypeInv, TypeOK
<1>k. ASSUME KeepStateIds \/ UNCHANGED <<nextStateId, meaning>> PROVE MeaningsKeep'
  BY <1>k DEF KeepStateIds, MeaningsKeep
<1>1. ASSUME NEW b \in NewCommand, NEW c \in Command, NEW d \in Document, ExecuteStep(b, c, d)
      PROVE  MeaningsKeep'
  <2>1. CASE c.executed
    <3>1. MintStateId(d)
      BY <1>1, <2>1 DEF ExecuteStep, Accept
    <3>2. /\ nextStateId' = nextStateId + 1 /\ meaning'[nextStateId] = Content(d)
          /\ \A id \in 0 .. nextStateId - 1 : meaning'[id] = meaning[id]
      BY <3>1, MintingExtends
    <3>3. Keeps(Content(document))
      <4>1. meaning[currentStateId] = Content(document)
        BY SoundSuffices DEF StateIdNamesContent
      <4> QED BY <1>t, <4>1 DEF MeaningsKeep, TypeOK
    <3>4. Keeps(Content(d))
      BY <1>1, <1>t, <2>1, <3>3, FirstCallKeeps DEF ExecuteStep
    <3>5. nextStateId \in Nat
      BY <1>t, CommandManagerAssumption DEF TypeOK
    <3>6. ASSUME NEW id \in 0 .. nextStateId' - 1 PROVE Keeps(meaning'[id])
      <4>1. CASE id = nextStateId
        BY <3>2, <3>4, <4>1
      <4>2. CASE id # nextStateId
        <5>1. id \in 0 .. nextStateId - 1
          BY <3>2, <3>5, <4>2
        <5> QED BY <3>2, <5>1 DEF MeaningsKeep
      <4> QED BY <4>1, <4>2
    <3> QED BY <3>6 DEF MeaningsKeep
  <2>2. CASE ~c.executed
    BY <1>1, <1>k, <2>2 DEF ExecuteStep, Reject
  <2> QED BY <2>1, <2>2
<1>2. ASSUME NEW c \in Command, NEW d \in Document, UndoStep(c, d)
      PROVE  MeaningsKeep'
  <2>1. ~c.tore
    <3>1. c \in Commands
      BY InstanceHistoryAssumption
    <3>2. c.tore \in {FALSE}
      <4>1. c \in AddCommands => c.tore \in {FALSE}
        BY DEF AddCommands
      <4>2. c \in SetCommands => c.tore \in {FALSE}
        BY DEF SetCommands
      <4> QED BY <3>1, <4>1, <4>2 DEF Commands
    <3> QED BY <3>2
  <2> QED BY <1>2, <1>k, <2>1 DEF UndoStep, Undone, UndoRefused
<1>3. ASSUME NEW c \in Command, NEW d \in Document, RedoStep(c, d)
      PROVE  MeaningsKeep'
  BY <1>3, <1>k DEF RedoStep, Redone, RedoRefused
<1>4. ASSUME NEW d \in InitialDocument, ClearHistory(d)
      PROVE  MeaningsKeep'
  <2>1. nextStateId' = 1 /\ meaning'[0] = Content(d)
    BY <1>4 DEF ClearHistory
  <2>2. \A id \in 0 .. nextStateId' - 1 : id = 0
    BY <2>1
  <2>3. \A id \in 0 .. nextStateId' - 1 : Keeps(meaning'[id])
    BY <2>1, <2>2, FreshStartKeeps
  <2> QED BY <2>3 DEF MeaningsKeep
<1>5. ASSUME EditElsewhere \/ UNCHANGED vars
      PROVE  MeaningsKeep'
  BY <1>5, <1>k DEF EditElsewhere, vars
<1> QED BY <1>1, <1>2, <1>3, <1>4, <1>5, <1>t, StepCases

(* The rules hold of the document, which has the content of its id.        *)
LEMMA DocumentKeeps == TypeInv /\ Sound /\ MeaningsKeep => Keeps(document.records)
<1> SUFFICES ASSUME TypeInv, Sound, MeaningsKeep PROVE Keeps(document.records)
  OBVIOUS
<1>1. meaning[currentStateId] = Content(document)
  BY SoundSuffices DEF StateIdNamesContent
<1>2. document \in Document /\ currentStateId \in 0 .. nextStateId - 1
  BY DEF TypeInv, TypeOK
<1>3. Content(document) = document.records
  BY <1>2, ContentIsList
<1> QED BY <1>1, <1>2, <1>3 DEF MeaningsKeep

LEMMA HistoryInvariant == Spec => [](TypeInv /\ Sound /\ MeaningsKeep)
<1>1. TypeInv /\ Sound /\ [Next]_vars => Sound'
  BY InstanceCommandsAreReversible, StepSound
<1> QED BY <1>1, InitTyped, StepTyped, InitSound, InitKeeps, StepKeeps, PTL DEF Spec

(* THEOREM: no two instances of a project ever share an id, whichever      *)
(* cores share a token and however instances are added, removed by undo    *)
(* and brought back by redo.                                               *)
THEOREM InstanceIdsAlwaysUnique == Spec => []InstanceIdsUnique
<1>1. TypeInv /\ Sound /\ MeaningsKeep => InstanceIdsUnique
  BY DocumentKeeps DEF Keeps, InstanceIdsUnique
<1> QED BY <1>1, HistoryInvariant, PTL

(* THEOREM: the limits of the catalog that creation checks hold throughout *)
(* undo and redo, which check none.                                        *)
THEOREM LimitsAlwaysKept == Spec => []LimitsKept
<1>1. TypeInv /\ Sound /\ MeaningsKeep => LimitsKept
  BY DocumentKeeps DEF Keeps, LimitsKept
<1> QED BY <1>1, HistoryInvariant, PTL

(* THEOREM: a state id names one content in a history of instance          *)
(* commands, without any assumption about them.                            *)
THEOREM InstanceStateIdsNameContents == Spec => []StateIdNamesContent
BY InstanceCommandsAreReversible, StateIdsNameContents

-----------------------------------------------------------------------------
(* Neither call of a command leaves the selection on a record that is gone:*)
(* an addition selects what it adds, its undo reselects what still exists, *)
(* and a parameter change keeps all the records there are.                 *)
LEMMA SetKeepsSelection ==
  ASSUME NEW w \in Documents, SelectionIn(w), NEW ref, HasRecord(w.records, ref),
         NEW v \in Values \cup {NoValue}, NEW d,
         d.records = SetParameter(w.records, ref, v), d.selected = w.selected
  PROVE  SelectionIn(d)
<1>1. w.records \in Seq(Records) /\ DistinctRefs(w.records)
  BY DocumentParts, ListParts
<1>2. \A k : HasRecord(d.records, k) <=> HasRecord(w.records, k)
  BY <1>1, AfterSet
<1> QED BY <1>2 DEF SelectionIn

LEMMA ExecuteSelects ==
  ASSUME NEW b \in Command, NEW w \in Document, SelectionIn(w),
         NEW c, NEW d, <<c, d>> \in Execute(b, w)
  PROVE  SelectionIn(d)
<1>1. b \in Commands /\ w \in Documents
  BY InstanceHistoryAssumption
<1>2. <<c, d>> \in ExecuteInstanceCommand(b, w)
  BY <1>1, InstanceHistoryAssumption
<1>3. CASE b.kind = "add" /\ b.created = NoRecord
  <2>1. <<c, d>> = AddFirst(b, w)
    BY <1>2, <1>3 DEF ExecuteInstanceCommand, AddExecute
  <2>2. (c.executed = TRUE /\ Created(b, w, c, d)) \/ d = w
    BY <1>1, <1>3, <2>1, AddFirstOutcome
  <2>3. CASE Created(b, w, c, d)
    <3> DEFINE x == w.records
               r == DefaultRecord(b.core, NextInstanceId(x, b.core))
    <3>1. /\ r \in Records /\ ~HasRecord(x, Ref(r))
          /\ d.records = InsertAt(x, Len(x) + 1, r) /\ d.selected = Ref(r)
      BY <2>3 DEF Created, CanInsert
    <3> HIDE DEF r
    <3>2. x \in Seq(Records) /\ DistinctRefs(x) /\ Len(x) + 1 \in 1 .. Len(x) + 1
      BY <1>1, DocumentParts, ListParts
    <3>3. HasRecord(d.records, Ref(r))
      BY <3>1, <3>2, AfterInsert
    <3> QED BY <3>1, <3>3 DEF SelectionIn
  <2> QED BY <2>2, <2>3
<1>4. CASE b.kind = "add" /\ b.created # NoRecord
  <2>1. <<c, d>> = AddAgain(b, w)
    BY <1>2, <1>4 DEF ExecuteInstanceCommand, AddExecute
  <2>2. SelectionIn(d) \/ d = w
    BY <1>1, <1>4, <2>1, AddAgainOutcome
  <2> QED BY <2>2
<1>5. CASE b.kind = "set"
  <2>1. <<c, d>> = SetExecute(b, w)
    <3>1. "add" # "set"
      OBVIOUS
    <3> QED BY <1>2, <1>5, <3>1 DEF ExecuteInstanceCommand
  <2>2. Written(b, w, c, d) \/ NotWritten(b, w, c, d)
    BY <1>1, <1>5, <2>1, SetExecuteOutcome
  <2>3. CASE Written(b, w, c, d)
    BY <1>1, <1>5, <2>3, SetFields, SetKeepsSelection DEF Written
  <2> QED BY <2>2, <2>3 DEF NotWritten
<1> QED BY <1>1, <1>3, <1>4, <1>5, KindsOfCommands

LEMMA UndoSelects ==
  ASSUME NEW b \in Command, NEW w \in Document, SelectionIn(w),
         NEW c, NEW d, <<c, d>> \in Undo(b, w)
  PROVE  SelectionIn(d)
<1>1. b \in Commands /\ w \in Documents
  BY InstanceHistoryAssumption
<1>2. <<c, d>> \in UndoInstanceCommand(b, w)
  BY <1>1, InstanceHistoryAssumption
<1>3. CASE b.kind = "add"
  <2>1. <<c, d>> = AddUndo(b, w)
    BY <1>2, <1>3 DEF UndoInstanceCommand
  <2>2. SelectionIn(d) \/ d = w
    BY <1>1, <1>3, <2>1, AddUndoOutcome
  <2> QED BY <2>2
<1>4. CASE b.kind = "set"
  <2>1. <<c, d>> = SetUndo(b, w)
    <3>1. "add" # "set"
      OBVIOUS
    <3> QED BY <1>2, <1>4, <3>1 DEF UndoInstanceCommand
  <2>2. WrittenBack(b, w, d) \/ d = w
    BY <1>1, <1>4, <2>1, SetUndoOutcome
  <2>3. CASE WrittenBack(b, w, d)
    BY <1>1, <1>4, <2>3, SetFields, SetKeepsSelection DEF WrittenBack
  <2> QED BY <2>2, <2>3
<1> QED BY <1>1, <1>3, <1>4, KindsOfCommands

LEMMA StepSelects == TypeInv /\ SelectionExists /\ [Next]_vars => SelectionExists'
<1> SUFFICES ASSUME TypeInv, SelectionIn(document), [Next]_vars PROVE SelectionIn(document')
  BY DEF SelectionExists
<1>t. TypeOK /\ document \in Document
  BY DEF TypeInv, TypeOK
<1>1. ASSUME NEW b \in NewCommand, NEW c \in Command, NEW d \in Document, ExecuteStep(b, c, d)
      PROVE  SelectionIn(document')
  <2>1. document' = d /\ b \in Command
    BY <1>1, CommandManagerAssumption DEF ExecuteStep, Accept, Reject
  <2> QED BY <1>1, <1>t, <2>1, ExecuteSelects DEF ExecuteStep
<1>2. ASSUME NEW c \in Command, NEW d \in Document, UndoStep(c, d)
      PROVE  SelectionIn(document')
  <2> DEFINE top == Top(undoStack)
  <2>1. document' = d /\ <<c, d>> \in UndoOutcomes(top) /\ undoStack # <<>>
    BY <1>2 DEF UndoStep, Undone, UndoRefused
  <2>2. top.command \in Command
    <3>1. top \in HistoryEntry
      BY <1>t, <2>1, PopDropsTop DEF TypeOK
    <3> QED BY <3>1 DEF HistoryEntry
  <2> HIDE DEF top
  <2>3. CASE top.command.executed
    BY <1>t, <2>1, <2>2, <2>3, UndoSelects DEF UndoOutcomes
  <2>4. CASE ~top.command.executed
    BY <2>1, <2>4 DEF UndoOutcomes
  <2> QED BY <2>3, <2>4
<1>3. ASSUME NEW c \in Command, NEW d \in Document, RedoStep(c, d)
      PROVE  SelectionIn(document')
  <2> DEFINE top == Top(redoStack)
  <2>1. document' = d /\ <<c, d>> \in Execute(top.command, document) /\ redoStack # <<>>
    BY <1>3 DEF RedoStep, Redone, RedoRefused
  <2>2. top.command \in Command
    <3>1. top \in HistoryEntry
      BY <1>t, <2>1, PopDropsTop DEF TypeOK
    <3> QED BY <3>1 DEF HistoryEntry
  <2> HIDE DEF top
  <2> QED BY <1>t, <2>1, <2>2, ExecuteSelects
<1>4. ASSUME NEW d \in InitialDocument, ClearHistory(d)
      PROVE  SelectionIn(document')
  BY <1>4, FreshStartKeeps DEF ClearHistory
<1>5. ASSUME EditElsewhere
      PROVE  SelectionIn(document')
  <2>1. document \in Documents /\ document' \in SelectInstance(document)
    BY <1>5, <1>t, InstanceHistoryAssumption DEF EditElsewhere
  <2>2. PICK ref \in Selectable(document) : document' = [document EXCEPT !.selected = ref]
    BY <2>1 DEF SelectInstance
  <2>3. document'.records = document.records /\ document'.selected = ref
    <3>1. document = [records |-> document.records, selected |-> document.selected]
      BY <2>1 DEF Documents
    <3> QED BY <2>2, <3>1
  <2>4. HasRecord(document.records, ref)
    <3>1. document.records \in Seq(Records) /\ DistinctRefs(document.records)
      BY <2>1, DocumentParts, ListParts
    <3>2. \E i \in 1 .. Len(document.records) : Ref(document.records[i]) = ref
      BY <2>2, <3>1, LenProperties DEF Selectable
    <3> QED BY <3>1, <3>2, Found
  <2> QED BY <2>3, <2>4 DEF SelectionIn
<1>6. ASSUME UNCHANGED vars
      PROVE  SelectionIn(document')
  BY <1>6 DEF vars
<1> QED BY <1>1, <1>2, <1>3, <1>4, <1>5, <1>6, <1>t, StepCases

(* THEOREM: the selected instance exists, also after the instance that was *)
(* selected has been undone away.                                          *)
THEOREM SelectionAlwaysExists == Spec => []SelectionExists
<1>1. Init => SelectionExists
  BY FreshStartKeeps DEF Init, SelectionExists
<1>2. Spec => [](TypeInv /\ SelectionExists)
  BY <1>1, InitTyped, StepTyped, StepSelects, PTL DEF Spec
<1> QED BY <1>2, PTL

=============================================================================
