-------------------------- MODULE UndoStackProofs --------------------------
(***************************************************************************)
(* Theorems about the undo stack.  First its actions, one at a time, for   *)
(* texts of any length: what undoing and redoing one does, and that a      *)
(* merged action is both of those it was made from.  Then the buffer: its  *)
(* inductive invariant says that there is a line of texts, each made from  *)
(* the one before by an action, and that the two stacks are the parts of   *)
(* the line before and after the text of the buffer.  From it follow the   *)
(* properties of UndoStack and that it implements UndoHistory.             *)
(***************************************************************************)
EXTENDS UndoStack, SequenceTheorems, WellFoundedInduction, TLAPS

\* A text, without the bound.
String == Seq(Char)

LEMMA SliceIs ==
    ASSUME NEW t \in String, NEW a \in Nat, NEW b \in Nat, a <= b, b <= Len(t)
    PROVE  /\ Slice(t, a, b) \in String /\ Len(Slice(t, a, b)) = b - a
           /\ \A i \in 1 .. b - a : Slice(t, a, b)[i] = t[a + i]
<1>1. PICK n \in Nat : n = Len(t)
  BY DEF String
<1>2. \A i \in a + 1 .. b : t[i] \in Char
  <2>1. \A i \in 1 .. n : t[i] \in Char
    BY <1>1 DEF String
  <2> QED  BY <1>1, <2>1
<1>3. PICK low \in Int : low = a + 1
  OBVIOUS
<1>4. /\ SubSeq(t, low, b) \in Seq(Char)
      /\ Len(SubSeq(t, low, b)) = IF low <= b THEN b - low + 1 ELSE 0
      /\ \A i \in 1 .. b - low + 1 : SubSeq(t, low, b)[i] = t[low + i - 1]
  BY <1>2, <1>3, SubSeqProperties
<1>5. b - low + 1 = b - a /\ (IF low <= b THEN b - low + 1 ELSE 0) = b - a
      /\ \A i \in 1 .. b - a : low + i - 1 = a + i
  BY <1>3
<1> QED
  BY <1>3, <1>4, <1>5, Zenon DEF Slice, String

LEMMA JoinIs ==
    ASSUME NEW x \in String, NEW y \in String
    PROVE  /\ x \o y \in String /\ Len(x \o y) = Len(x) + Len(y)
           /\ Len(x) \in Nat /\ Len(y) \in Nat
           /\ \A i \in 1 .. Len(x) : (x \o y)[i] = x[i]
           /\ \A i \in 1 .. Len(y) : (x \o y)[Len(x) + i] = y[i]
<1>1. Len(x) \in Nat /\ Len(y) \in Nat
  BY DEF String
<1>2. PICK s : s = x \o y
  OBVIOUS
<1>3. /\ s \in String /\ Len(s) = Len(x) + Len(y)
      /\ \A i \in 1 .. Len(x) + Len(y) : s[i] = IF i <= Len(x) THEN x[i] ELSE y[i - Len(x)]
  BY <1>2, ConcatProperties DEF String
<1>4. PICK m \in Nat, n \in Nat : m = Len(x) /\ n = Len(y)
  BY <1>1
<1>5. \A i \in 1 .. m : s[i] = x[i]
  BY <1>3, <1>4
<1>6. \A i \in 1 .. n : s[m + i] = y[i]
  <2> SUFFICES ASSUME NEW i \in 1 .. n PROVE s[m + i] = y[i]
    OBVIOUS
  <2>1. m + i \in 1 .. m + n /\ ~(m + i <= m) /\ (m + i) - m = i
    OBVIOUS
  <2> QED  BY <1>3, <1>4, <2>1
<1> QED
  BY <1>1, <1>2, <1>3, <1>4, <1>5, <1>6

LEMMA SameText ==
    ASSUME NEW s \in String, NEW t \in String, Len(s) = Len(t),
           \A i \in 1 .. Len(s) : s[i] = t[i]
    PROVE  s = t
BY SeqEqual DEF String

\* The two ends of a text.
LEMMA TheEnds ==
    ASSUME NEW x \in String, NEW y \in String
    PROVE  /\ Slice(x \o y, 0, Len(x)) = x
           /\ Slice(x \o y, Len(x), Len(x \o y)) = y
<1>1. PICK t \in String : t = x \o y
  BY JoinIs
<1>2. PICK m \in Nat, n \in Nat : m = Len(x) /\ n = Len(y)
  BY JoinIs
<1>3. /\ Len(t) = m + n
      /\ \A i \in 1 .. m : t[i] = x[i]
      /\ \A i \in 1 .. n : t[m + i] = y[i]
  BY <1>1, <1>2, JoinIs
<1>4. Slice(t, 0, m) = x
  <2>1. PICK s \in String : s = Slice(t, 0, m) /\ Len(s) = m /\ \A i \in 1 .. m : s[i] = t[i]
    <3>1. /\ Slice(t, 0, m) \in String /\ Len(Slice(t, 0, m)) = m - 0
          /\ \A i \in 1 .. m - 0 : Slice(t, 0, m)[i] = t[0 + i]
      <4>1. 0 \in Nat /\ 0 <= m /\ m <= Len(t)
        BY <1>3
      <4> QED  BY <4>1, SliceIs
    <3>2. m - 0 = m /\ \A i \in 1 .. m : 0 + i = i
      OBVIOUS
    <3> QED  BY <3>1, <3>2
  <2> QED  BY <1>2, <1>3, <2>1, SameText
<1>5. Slice(t, m, m + n) = y
  <2>1. PICK s \in String : s = Slice(t, m, m + n) /\ Len(s) = n /\ \A i \in 1 .. n : s[i] = t[m + i]
    <3>1. /\ Slice(t, m, m + n) \in String /\ Len(Slice(t, m, m + n)) = (m + n) - m
          /\ \A i \in 1 .. (m + n) - m : Slice(t, m, m + n)[i] = t[m + i]
      <4>1. m + n \in Nat /\ m <= m + n /\ m + n <= Len(t)
        BY <1>3
      <4> QED  BY <4>1, SliceIs
    <3>2. (m + n) - m = n
      OBVIOUS
    <3> QED  BY <3>1, <3>2
  <2> QED  BY <1>2, <1>3, <2>1, SameText
<1> QED
  BY <1>1, <1>2, <1>3, <1>4, <1>5

\* A text is what is before a place and what is after it.
LEMMA Split ==
    ASSUME NEW t \in String, NEW p \in 0 .. Len(t)
    PROVE  \E x \in String, y \in String : t = x \o y /\ Len(x) = p
<1>1. PICK n \in Nat : n = Len(t)
  BY DEF String
<1>2. p \in Nat /\ p <= n /\ 0 <= p
  BY <1>1
<1>3. PICK x \in String : x = Slice(t, 0, p) /\ Len(x) = p /\ \A i \in 1 .. p : x[i] = t[i]
  <2>1. /\ Slice(t, 0, p) \in String /\ Len(Slice(t, 0, p)) = p - 0
        /\ \A i \in 1 .. p - 0 : Slice(t, 0, p)[i] = t[0 + i]
    BY <1>1, <1>2, SliceIs, ZenonT(60)
  <2>2. p - 0 = p /\ \A i \in 1 .. p : 0 + i = i
    BY <1>2
  <2> QED  BY <2>1, <2>2
<1>4. PICK y \in String : /\ y = Slice(t, p, n) /\ Len(y) = n - p
                          /\ \A i \in 1 .. n - p : y[i] = t[p + i]
  <2>1. n <= Len(t)
    BY <1>1
  <2> QED  BY <1>2, <2>1, SliceIs
<1>a. /\ x \o y \in String /\ Len(x \o y) = Len(x) + Len(y)
      /\ \A i \in 1 .. Len(x) : (x \o y)[i] = x[i]
      /\ \A i \in 1 .. Len(y) : (x \o y)[Len(x) + i] = y[i]
  BY JoinIs
<1>5. PICK s \in String : s = x \o y
  BY <1>a
<1>6. /\ Len(s) = p + (n - p)
      /\ \A i \in 1 .. p : s[i] = x[i]
      /\ \A i \in 1 .. n - p : s[p + i] = y[i]
  BY <1>3, <1>4, <1>5, <1>a, Zenon
<1>7. p + (n - p) = n
      /\ \A i \in 1 .. n : i \in 1 .. p \/ (i - p \in 1 .. n - p /\ p + (i - p) = i)
  BY <1>2
<1>8. \A i \in 1 .. n : s[i] = t[i]
  <2> SUFFICES ASSUME NEW i \in 1 .. n PROVE s[i] = t[i]
    OBVIOUS
  <2>1. CASE i \in 1 .. p
    BY <1>3, <1>6, <2>1
  <2>2. CASE i - p \in 1 .. n - p /\ p + (i - p) = i
    BY <1>4, <1>6, <2>2
  <2> QED  BY <1>7, <2>1, <2>2
<1>9. s = t
  BY <1>1, <1>6, <1>7, <1>8, SameText
<1> QED
  BY <1>3, <1>5, <1>9

-----------------------------------------------------------------------------
(* One action *)

LEMMA Associative ==
    ASSUME NEW x \in String, NEW y \in String, NEW z \in String
    PROVE  (x \o y) \o z = x \o (y \o z)
BY ConcatAssociative DEF String

LEMMA InsertGives ==
    ASSUME NEW x \in String, NEW s \in String, NEW y \in String
    PROVE  Inserted(x \o y, Len(x), s) = (x \o s) \o y
BY TheEnds, Zenon DEF Inserted

LEMMA DeleteGives ==
    ASSUME NEW x \in String, NEW s \in String, NEW y \in String
    PROVE  Deleted((x \o s) \o y, Len(x), Len(s)) = x \o y
<1>1. PICK t \in String, u \in String, w \in String :
          t = (x \o s) \o y /\ u = x \o s /\ w = s \o y
  BY JoinIs
<1>2. t = x \o w
  BY <1>1, ConcatAssociative DEF String
<1>3. Slice(t, 0, Len(x)) = x
  BY <1>2, TheEnds, Zenon
<1>4. Slice(t, Len(x) + Len(s), Len(t)) = y
  <2>1. Slice(t, Len(u), Len(t)) = y
    BY <1>1, TheEnds, Zenon
  <2>2. Len(u) = Len(x) + Len(s)
    BY <1>1, JoinIs, Zenon
  <2> QED  BY <2>1, <2>2
<1> QED
  BY <1>1, <1>3, <1>4, Zenon DEF Deleted

\* The action can be done: a text is inserted within the text, or what is deleted is
\* there.
CanDo(t, a) ==
    IF a.type = "insert" THEN a.pos \in 0 .. Len(t)
    ELSE \E x, y \in String : t = (x \o a.text) \o y /\ a.pos = Len(x)

\* It can be undone.
CanUndo(t, a) ==
    IF a.type = "insert" THEN \E x, y \in String : t = (x \o a.text) \o y /\ a.pos = Len(x)
    ELSE a.pos \in 0 .. Len(t)

LEMMA InsertGoes ==
    ASSUME NEW x \in String, NEW s \in String, NEW y \in String
    PROVE  /\ Inserted(x \o y, Len(x), s) = (x \o s) \o y
           /\ Deleted(Inserted(x \o y, Len(x), s), Len(x), Len(s)) = x \o y
<1>1. Inserted(x \o y, Len(x), s) = (x \o s) \o y
  BY InsertGives, Zenon
<1>2. Deleted((x \o s) \o y, Len(x), Len(s)) = x \o y
  BY DeleteGives, Zenon
<1> QED
  BY <1>1, <1>2

LEMMA DeleteGoes ==
    ASSUME NEW x \in String, NEW s \in String, NEW y \in String
    PROVE  /\ Deleted((x \o s) \o y, Len(x), Len(s)) = x \o y
           /\ Len(x) \in 0 .. Len(x \o y)
           /\ Inserted(Deleted((x \o s) \o y, Len(x), Len(s)), Len(x), s) = (x \o s) \o y
<1>1. Deleted((x \o s) \o y, Len(x), Len(s)) = x \o y
  BY DeleteGives, Zenon
<1>2. Inserted(x \o y, Len(x), s) = (x \o s) \o y
  BY InsertGives, Zenon
<1>3. Len(x) \in 0 .. Len(x \o y)
  <2>1. Len(x \o y) = Len(x) + Len(y) /\ Len(x) \in Nat /\ Len(y) \in Nat
    BY JoinIs, Zenon
  <2> QED  BY <2>1
<1> QED
  BY <1>1, <1>2, <1>3

-----------------------------------------------------------------------------
(* Undo and redo *)

\* Actions, without the bounds.
AnyAction == [type : {"insert", "delete"}, id : Nat, pos : Nat, text : String,
              interactive : BOOLEAN, mergeable : BOOLEAN, forward : BOOLEAN]

LEMMA ActionsAreActions == Action \subseteq AnyAction
<1>1. MaxMade + 2 \in Nat /\ MaxLength \in Nat
  BY UndoAssumption
<1>2. 1 .. MaxMade + 2 \subseteq Nat /\ 0 .. MaxLength \subseteq Nat
  BY <1>1
<1>3. Text \ {<<>>} \subseteq String
  BY DEF Text, String
<1> QED
  BY <1>2, <1>3 DEF Action, AnyAction

\* insert_action_undo() and delete_action_undo() take back what insert_action_redo()
\* and delete_action_redo() do, for a text of any length and an action that can be
\* done to it; after that it can be undone.
THEOREM UndoGoesBack ==
    ASSUME NEW t \in String, NEW a \in AnyAction, CanDo(t, a)
    PROVE  /\ Unapplied(Applied(t, a), a) = t
           /\ CanUndo(Applied(t, a), a)
<1>1. PICK s \in String : s = a.text
  BY DEF AnyAction
<1>2. CASE a.type = "insert"
  <2>1. PICK p \in 0 .. Len(t) : p = a.pos
    BY <1>2 DEF CanDo
  <2>2. PICK x \in String, y \in String :
            /\ p = Len(x)
            /\ Inserted(t, p, s) = (x \o s) \o y
            /\ Deleted(Inserted(t, p, s), p, Len(s)) = t
    <3>1. PICK x \in String, y \in String : t = x \o y /\ Len(x) = p
      BY Split
    <3>2. /\ Inserted(x \o y, Len(x), s) = (x \o s) \o y
          /\ Deleted(Inserted(x \o y, Len(x), s), Len(x), Len(s)) = x \o y
      BY InsertGoes, Zenon
    <3> QED  BY <3>1, <3>2
  <2>3. Applied(t, a) = (x \o s) \o y
    BY <1>1, <1>2, <2>1, <2>2, Zenon DEF Applied
  <2>4. Unapplied(Applied(t, a), a) = t
    BY <1>1, <1>2, <2>1, <2>2, Zenon DEF Applied, Unapplied
  <2> QED  BY <1>1, <1>2, <2>1, <2>2, <2>3, <2>4, Zenon DEF CanUndo
<1>3. CASE ~ (a.type = "insert")
  <2>1. PICK x \in String, y \in String : t = (x \o a.text) \o y /\ a.pos = Len(x)
    BY <1>3, Zenon DEF CanDo
  <2>2. /\ Deleted(t, a.pos, Len(s)) = x \o y
        /\ a.pos \in 0 .. Len(x \o y)
        /\ Inserted(Deleted(t, a.pos, Len(s)), a.pos, s) = t
    <3>1. t = (x \o s) \o y /\ a.pos = Len(x)
      BY <1>1, <2>1
    <3>2. /\ Deleted((x \o s) \o y, Len(x), Len(s)) = x \o y
          /\ Len(x) \in 0 .. Len(x \o y)
          /\ Inserted(Deleted((x \o s) \o y, Len(x), Len(s)), Len(x), s) = (x \o s) \o y
      BY DeleteGoes, Zenon
    <3> QED  BY <3>1, <3>2
  <2> QED  BY <1>1, <1>3, <2>2, Zenon DEF Applied, Unapplied, CanUndo
<1> QED
  BY <1>2, <1>3, Zenon

\* insert_action_redo() and delete_action_redo() do again what insert_action_undo()
\* and delete_action_undo() took back, and then it can be done.
THEOREM RedoGoesOn ==
    ASSUME NEW t \in String, NEW a \in AnyAction, CanUndo(t, a)
    PROVE  /\ Applied(Unapplied(t, a), a) = t
           /\ CanDo(Unapplied(t, a), a)
<1>1. PICK s \in String : s = a.text
  BY DEF AnyAction
<1>2. CASE ~ (a.type = "insert")
  <2>1. PICK p \in 0 .. Len(t) : p = a.pos
    BY <1>2 DEF CanUndo
  <2>2. PICK x \in String, y \in String :
            /\ p = Len(x)
            /\ Inserted(t, p, s) = (x \o s) \o y
            /\ Deleted(Inserted(t, p, s), p, Len(s)) = t
    <3>1. PICK x \in String, y \in String : t = x \o y /\ Len(x) = p
      BY Split
    <3>2. /\ Inserted(x \o y, Len(x), s) = (x \o s) \o y
          /\ Deleted(Inserted(x \o y, Len(x), s), Len(x), Len(s)) = x \o y
      BY InsertGoes, Zenon
    <3> QED  BY <3>1, <3>2
  <2>3. Unapplied(t, a) = (x \o s) \o y
    BY <1>1, <1>2, <2>1, <2>2, Zenon DEF Unapplied
  <2>4. Applied(Unapplied(t, a), a) = t
    BY <1>1, <1>2, <2>1, <2>2, Zenon DEF Applied, Unapplied
  <2> QED  BY <1>1, <1>2, <2>1, <2>2, <2>3, <2>4, Zenon DEF CanDo
<1>3. CASE a.type = "insert"
  <2>1. PICK x \in String, y \in String : t = (x \o a.text) \o y /\ a.pos = Len(x)
    BY <1>3, Zenon DEF CanUndo
  <2>2. /\ Deleted(t, a.pos, Len(s)) = x \o y
        /\ a.pos \in 0 .. Len(x \o y)
        /\ Inserted(Deleted(t, a.pos, Len(s)), a.pos, s) = t
    <3>1. t = (x \o s) \o y /\ a.pos = Len(x)
      BY <1>1, <2>1
    <3>2. /\ Deleted((x \o s) \o y, Len(x), Len(s)) = x \o y
          /\ Len(x) \in 0 .. Len(x \o y)
          /\ Inserted(Deleted((x \o s) \o y, Len(x), Len(s)), Len(x), s) = (x \o s) \o y
      BY DeleteGoes, Zenon
    <3> QED  BY <3>1, <3>2
  <2> QED  BY <1>1, <1>3, <2>2, Zenon DEF Applied, Unapplied, CanDo
<1> QED
  BY <1>2, <1>3, Zenon

-----------------------------------------------------------------------------
(* Merging *)

LEMMA SameSplit ==
    ASSUME NEW x \in String, NEW y \in String, NEW u \in String, NEW v \in String,
           x \o y = u \o v, Len(x) = Len(u)
    PROVE  x = u /\ y = v
<1>1. /\ Slice(x \o y, 0, Len(x)) = x
      /\ Slice(x \o y, Len(x), Len(x \o y)) = y
      /\ Slice(u \o v, 0, Len(u)) = u
      /\ Slice(u \o v, Len(u), Len(u \o v)) = v
  BY TheEnds, Zenon
<1> QED
  BY <1>1

\* What two insertions do that were merged.
LEMMA BothInsert ==
    ASSUME NEW t \in String, NEW s \in String, NEW r \in String, NEW p \in 0 .. Len(t)
    PROVE  Inserted(Inserted(t, p, s), p + Len(s), r) = Inserted(t, p, s \o r)
<1>1. PICK x \in String, y \in String : t = x \o y /\ p = Len(x)
  BY Split
<1>2. Inserted(x \o y, Len(x), s) = (x \o s) \o y
  BY InsertGives, Zenon
<1>3. PICK u \in String : u = x \o s /\ Len(u) = Len(x) + Len(s)
  BY JoinIs
<1>4. Inserted(u \o y, Len(u), r) = (u \o r) \o y
  BY InsertGives, Zenon
<1>5. PICK w \in String : w = s \o r
  BY JoinIs
<1>6. Inserted(x \o y, Len(x), w) = (x \o w) \o y
  BY InsertGives, ZenonT(60)
<1>7. u \o r = x \o w
  <2>1. (x \o s) \o r = x \o (s \o r)
    BY Associative, ZenonT(120)
  <2> QED  BY <1>3, <1>5, <2>1
<1>8. Inserted(t, p, s) = u \o y /\ p + Len(s) = Len(u)
  BY <1>1, <1>2, <1>3
<1>9. Inserted(t, p, w) = (x \o w) \o y
  BY <1>1, <1>6
<1> QED
  BY <1>4, <1>5, <1>7, <1>8, <1>9

\* What two deletions do, with the key that deletes forward ...
DeletesAfter(x, s, r, v) ==
    /\ (x \o s) \o (r \o v) = (x \o (s \o r)) \o v
    /\ Deleted((x \o s) \o (r \o v), Len(x), Len(s \o r)) = x \o v
    /\ Deleted(x \o (r \o v), Len(x), Len(r)) = x \o v

LEMMA BothDeleteAfter ==
    ASSUME NEW x \in String, NEW s \in String, NEW r \in String, NEW v \in String
    PROVE  DeletesAfter(x, s, r, v)
<1>1. PICK k \in String, q \in String : k = x \o s /\ q = s \o r
  BY JoinIs
<1>2. k \o (r \o v) = (x \o q) \o v
  <2>1. (k \o r) \o v = k \o (r \o v)
    BY Associative, ZenonT(60)
  <2>2. (x \o s) \o r = x \o (s \o r)
    BY Associative, SMTT(60)
  <2> QED  BY <1>1, <2>1, <2>2
<1>3. Deleted((x \o q) \o v, Len(x), Len(q)) = x \o v
  BY DeleteGives, Zenon
<1>4. Deleted((x \o r) \o v, Len(x), Len(r)) = x \o v
  BY DeleteGives, Zenon
<1>5. (x \o r) \o v = x \o (r \o v)
  BY Associative, SMTT(60)
<1> QED
  BY <1>1, <1>2, <1>3, <1>4, <1>5 DEF DeletesAfter

\* ... and with the one that deletes backward.
DeletesBefore(u, r, s, v) ==
    /\ ((u \o r) \o s) \o v = (u \o (r \o s)) \o v
    /\ Deleted(((u \o r) \o s) \o v, Len(u), Len(r \o s)) = u \o v
    /\ Deleted((u \o r) \o v, Len(u), Len(r)) = u \o v

LEMMA BothDeleteBefore ==
    ASSUME NEW u \in String, NEW r \in String, NEW s \in String, NEW v \in String
    PROVE  DeletesBefore(u, r, s, v)
<1>1. PICK q \in String : q = r \o s
  BY JoinIs
<1>2. (u \o r) \o s = u \o (r \o s)
  BY Associative, ZenonT(60)
<1>3. Deleted((u \o q) \o v, Len(u), Len(q)) = u \o v
  BY DeleteGives, Zenon
<1>4. Deleted((u \o r) \o v, Len(u), Len(r)) = u \o v
  BY DeleteGives, Zenon
<1> QED
  BY <1>1, <1>2, <1>3, <1>4 DEF DeletesBefore

\* delete_action_merge() and insert_action_merge() lose nothing: doing the merged
\* action is doing the one and then the other, for a text of any length, and undoing
\* it leads back to where both began.
THEOREM MergedIsBoth ==
    ASSUME NEW b, NEW t \in String, NEW last \in AnyAction, NEW a \in AnyAction,
           Merges(b, last, a), CanDo(t, last), CanDo(Applied(t, last), a)
    PROVE  /\ Applied(t, Merged(last, a)) = Applied(Applied(t, last), a)
           /\ Unapplied(Applied(Applied(t, last), a), Merged(last, a)) = t
           /\ Merged(last, a) \in AnyAction /\ CanDo(t, Merged(last, a))
<1> DEFINE m == Merged(last, a)
<1>1. PICK s \in String, r \in String : s = last.text /\ r = a.text
  BY DEF AnyAction
<1>2. last.type = a.type /\ a.type \in {"insert", "delete"}
  BY DEF Merges, AnyAction
<1>3. m \in AnyAction /\ m.type = a.type
  <2>1. r \o s \in String /\ s \o r \in String
    BY JoinIs, Zenon
  <2> QED  BY <1>1, <1>2, <2>1 DEF Merged, AnyAction
<1>4. /\ Applied(t, m) = Applied(Applied(t, last), a)
      /\ CanDo(t, m)
  <2>1. CASE a.type = "insert"
    <3>1. m.pos = last.pos /\ m.text = s \o r
      BY <1>1, <2>1 DEF Merged, AnyAction
    <3>2. last.pos \in 0 .. Len(t) /\ a.pos = last.pos + Len(s)
      BY <1>1, <1>2, <2>1 DEF Merges, Follows, CanDo
    <3>3. Inserted(Inserted(t, last.pos, s), last.pos + Len(s), r)
            = Inserted(t, last.pos, s \o r)
      BY <3>2, BothInsert, Zenon
    <3> QED  BY <1>1, <1>2, <1>3, <2>1, <3>1, <3>2, <3>3, Zenon DEF Applied, CanDo
  <2>2. CASE a.type = "delete"
    <3>1. PICK x \in String, y \in String : t = (x \o s) \o y /\ last.pos = Len(x)
      BY <1>1, <1>2, <2>2 DEF CanDo
    <3>2. Applied(t, last) = x \o y
      <4>1. Applied(t, last) = Deleted((x \o s) \o y, Len(x), Len(s))
        BY <1>1, <1>2, <2>2, <3>1 DEF Applied
      <4> QED  BY <4>1, DeleteGives, Zenon
    <3>3. PICK u \in String, v \in String : x \o y = (u \o r) \o v /\ a.pos = Len(u)
      BY <1>1, <2>2, <3>2 DEF CanDo
    <3>4. Applied(Applied(t, last), a) = Deleted(x \o y, Len(u), Len(r))
      BY <1>1, <2>2, <3>2, <3>3 DEF Applied
    <3>5. CASE DeletedBefore(last, a)
      <4>1. m.pos = Len(u) /\ m.text = r \o s
        BY <1>1, <2>2, <3>3, <3>5 DEF Merged, AnyAction
      <4>2. x = u \o r /\ y = v
        <5>1. Len(x) = Len(u) + Len(r)
          BY <1>1, <3>1, <3>3, <3>5 DEF DeletedBefore
        <5>2. PICK w \in String : w = u \o r /\ Len(w) = Len(u) + Len(r)
          BY JoinIs
        <5>3. x \o y = w \o v /\ Len(x) = Len(w)
          BY <3>3, <5>1, <5>2
        <5> QED  BY <5>2, <5>3, SameSplit
      <4>3. /\ ((u \o r) \o s) \o v = (u \o (r \o s)) \o v
            /\ Deleted(((u \o r) \o s) \o v, Len(u), Len(r \o s)) = u \o v
            /\ Deleted((u \o r) \o v, Len(u), Len(r)) = u \o v
        <5>1. DeletesBefore(u, r, s, v)
          BY BothDeleteBefore, Zenon
        <5> QED  BY <5>1, Zenon DEF DeletesBefore
      <4>4. Applied(t, m) = Deleted(((u \o r) \o s) \o v, Len(u), Len(r \o s))
        BY <1>3, <2>2, <3>1, <4>1, <4>2 DEF Applied
      <4>5. CanDo(t, m)
        <5>1. t = (u \o m.text) \o v /\ m.pos = Len(u)
          BY <3>1, <4>1, <4>2, <4>3
        <5> QED  BY <1>3, <2>2, <5>1 DEF CanDo
      <4>6. Deleted(x \o y, Len(u), Len(r)) = u \o v
        BY <4>2, <4>3
      <4> QED  BY <3>4, <4>3, <4>4, <4>5, <4>6
    <3>6. CASE ~ DeletedBefore(last, a)
      <4>1. m.pos = Len(x) /\ m.text = s \o r
        BY <1>1, <3>1, <3>6 DEF Merged, AnyAction
      <4>2. x = u /\ y = r \o v
        <5>1. Len(u) = Len(x)
          BY <2>2, <3>1, <3>3, <3>6 DEF Merges, DeletedAfter
        <5>2. PICK w \in String : w = r \o v
          BY JoinIs
        <5>3. (u \o r) \o v = u \o (r \o v)
          BY Associative, SMTT(90)
        <5>4. x \o y = u \o w /\ Len(x) = Len(u)
          BY <3>3, <5>1, <5>2, <5>3
        <5> QED  BY <5>2, <5>4, SameSplit
      <4>3. /\ (x \o s) \o (r \o v) = (x \o (s \o r)) \o v
            /\ Deleted((x \o s) \o (r \o v), Len(x), Len(s \o r)) = x \o v
            /\ Deleted(x \o (r \o v), Len(x), Len(r)) = x \o v
        <5>1. DeletesAfter(x, s, r, v)
          BY BothDeleteAfter, Zenon
        <5> QED  BY <5>1, Zenon DEF DeletesAfter
      <4>4. Applied(t, m) = Deleted((x \o s) \o (r \o v), Len(x), Len(s \o r))
        BY <1>3, <2>2, <3>1, <4>1, <4>2 DEF Applied
      <4>5. CanDo(t, m)
        <5>1. t = (x \o m.text) \o v /\ m.pos = Len(x)
          BY <3>1, <4>1, <4>2, <4>3
        <5> QED  BY <1>3, <2>2, <5>1 DEF CanDo
      <4>6. Deleted(x \o y, Len(u), Len(r)) = x \o v
        BY <4>2, <4>3
      <4> QED  BY <3>4, <4>3, <4>4, <4>5, <4>6
    <3> QED  BY <3>5, <3>6
  <2> QED  BY <1>2, <2>1, <2>2
<1>5. Unapplied(Applied(t, m), m) = t
  BY <1>3, <1>4, UndoGoesBack, Zenon
<1> QED
  BY <1>3, <1>4, <1>5

-----------------------------------------------------------------------------
(* Induction.  The theorems of the library take a predicate for a          *)
(* parameter; that a set of numbers has a least element says as much.      *)

LessThan == {ss \in Nat \X Nat : ss[1] < ss[2]}

LEMMA LeastOf ==
    ASSUME NEW S, S \subseteq Nat, S # {}
    PROVE  \E m \in S : \A k \in S : m <= k
<1>1. IsWellFoundedOn(LessThan, Nat)
  BY NatLessThanWellFounded DEF OpToRel, LessThan
<1>2. PICK m \in S : \A k \in S : ~ (<<k, m>> \in LessThan)
  BY <1>1, WFMin
<1>3. \A k \in S : ~ (k < m)
  <2> SUFFICES ASSUME NEW k \in S, k < m PROVE FALSE
    OBVIOUS
  <2>1. <<k, m>> \in LessThan
    BY DEF LessThan
  <2> QED  BY <1>2, <2>1
<1> QED
  BY <1>3

LEMMA Induction ==
    ASSUME NEW n \in Nat, NEW G, 0 \in G, \A i \in 0 .. n - 1 : i \in G => i + 1 \in G
    PROVE  0 .. n \subseteq G
<1> DEFINE S == 0 .. n \ G
<1> SUFFICES ASSUME S # {} PROVE FALSE
  OBVIOUS
<1>1. PICK m \in S : \A k \in S : m <= k
  <2>1. S \subseteq Nat
    OBVIOUS
  <2> HIDE DEF S
  <2> QED  BY <2>1, LeastOf
<1>2. m # 0 /\ m - 1 \in 0 .. n - 1 /\ m - 1 + 1 = m /\ ~(m <= m - 1)
  BY <1>1
<1>3. m - 1 \in G
  BY <1>1, <1>2
<1> QED
  BY <1>1, <1>2, <1>3

\* Walked() is the end of a walk.
Walk(u, b, g) ==
    \E w : /\ w[0] = b
           /\ \A i \in 1 .. Len(g) : w[i] = Step(u, w[i - 1], g[i])
           /\ Walked(u, b, g) = w[Len(g)]

LEMMA WalkIs ==
    ASSUME NEW u, NEW b, NEW g, Len(g) \in Nat
    PROVE  Walk(u, b, g)
<1> DEFINE After(f, i) == IF i = 0 THEN b ELSE Step(u, f[i - 1], g[i])
           F(n, f) == f = [i \in 0 .. n |-> After(f, i)]
           G == {n \in Nat : \E f : F(n, f)}
<1>1. 0 \in G
  <2> DEFINE f == [i \in 0 .. 0 |-> b]
  <2>1. f = [i \in 0 .. 0 |-> After(f, i)]
    OBVIOUS
  <2> QED  BY <2>1
<1>2. ASSUME NEW n \in Nat, n \in G PROVE n + 1 \in G
  <2>1. PICK f : F(n, f)
    BY <1>2
  <2> DEFINE h == [i \in 0 .. n + 1 |-> IF i <= n THEN f[i] ELSE Step(u, f[n], g[n + 1])]
  <2>2. \A i \in 0 .. n : h[i] = f[i] /\ f[i] = After(f, i)
    BY <2>1
  <2>3. h[n + 1] = Step(u, f[n], g[n + 1])
    OBVIOUS
  <2>4. \A i \in 0 .. n + 1 : h[i] = After(h, i)
    <3> SUFFICES ASSUME NEW i \in 0 .. n + 1 PROVE h[i] = After(h, i)
      OBVIOUS
    <3>1. CASE i = 0
      <4>1. 0 \in 0 .. n
        OBVIOUS
      <4> QED  BY <2>2, <3>1, <4>1
    <3>2. CASE i \in 1 .. n
      <4>1. h[i - 1] = f[i - 1]
        BY <2>2, <3>2
      <4> QED  BY <2>2, <3>2, <4>1
    <3>3. CASE i = n + 1
      <4>1. h[n] = f[n] /\ i - 1 = n /\ i # 0
        BY <2>2, <3>3
      <4> QED  BY <2>3, <3>3, <4>1
    <3> QED  BY <3>1, <3>2, <3>3
  <2>5. F(n + 1, h)
    BY <2>4
  <2>6. \E fn : F(n + 1, fn)
    BY <2>5
  <2> HIDE DEF F
  <2> QED  BY <2>6
<1>3. Len(g) \in G
  <2>1. 0 .. Len(g) \subseteq G
    BY <1>1, <1>2, Induction
  <2> QED  BY <2>1
<1> DEFINE after == CHOOSE f : F(Len(g), f)
<1>4. F(Len(g), after)
  BY <1>3, Zenon
<1>5. Walked(u, b, g) = after[Len(g)]
  BY Zenon DEF Walked
<1>6. after[0] = b /\ \A i \in 1 .. Len(g) : after[i] = Step(u, after[i - 1], g[i])
  <2>1. \A i \in 0 .. Len(g) : after[i] = After(after, i)
    BY <1>4, Zenon
  <2> QED  BY <2>1
<1> QED
  BY <1>5, <1>6, Zenon DEF Walk

-----------------------------------------------------------------------------
(* The line of texts that the actions on the stacks lead along, those that *)
(* can be undone and those that can be redone, and a place on it.          *)

\* The action A[i] makes the text T[i] of T[i - 1].
Line(A, T, n) ==
    /\ n \in Nat
    /\ A \in [1 .. n -> Action]
    /\ T \in [0 .. n -> Text]
    /\ \A i \in 1 .. n : CanDo(T[i - 1], A[i]) /\ T[i] = Applied(T[i - 1], A[i])
    /\ \A i, j \in 1 .. n : A[i].id = A[j].id => i = j

\* The buffer is at place c.  Who modified it is on the line, and on the near side
\* of the text f of the file: before it what can be undone, after it what can be redone.
Marked(b, f, A, T, n, c) ==
    /\ ~ b.modified => b.modifying_action = None /\ T[c] = f
    /\ b.modifying_action # None =>
          \E k \in 1 .. n : /\ A[k].id = b.modifying_action
                            /\ k <= c => T[k - 1] = f
                            /\ c < k => T[k] = f

At(b, f, A, T, n, c) == b \in Buffer /\ b.text = T[c] /\ Marked(b, f, A, T, n, c)

SameStacks(b, d) ==
    /\ d.undo_stack = b.undo_stack /\ d.redo_stack = b.redo_stack
    /\ d.new_group = b.new_group /\ d.do_continue = b.do_continue /\ d.made = b.made

LEMMA LineGoesBack ==
    ASSUME NEW A, NEW T, NEW n, Line(A, T, n), NEW i \in 1 .. n
    PROVE  /\ i - 1 \in 0 .. n /\ i \in 0 .. n /\ A[i] \in Action
           /\ T[i - 1] \in Text /\ T[i] \in Text
           /\ T[i] = Applied(T[i - 1], A[i])
           /\ T[i - 1] = Unapplied(T[i], A[i])
<1>1. i - 1 \in 0 .. n /\ i \in 0 .. n
  BY DEF Line
<1>2. /\ A[i] \in Action
      /\ T[i - 1] \in Text /\ T[i] \in Text
      /\ CanDo(T[i - 1], A[i]) /\ T[i] = Applied(T[i - 1], A[i])
  BY <1>1 DEF Line
<1>3. PICK t \in String, a \in AnyAction : t = T[i - 1] /\ a = A[i]
  BY <1>2, ActionsAreActions DEF Text, String
<1>4. Unapplied(Applied(t, a), a) = t
  <2>1. CanDo(t, a)
    BY <1>2, <1>3
  <2> QED  BY <2>1, UndoGoesBack, Zenon
<1> QED
  BY <1>1, <1>2, <1>3, <1>4

LEMMA UndoneType ==
    ASSUME NEW b \in Buffer, NEW a \in Action, NEW t \in Text
    PROVE  /\ UndoneOrRedone(b, a, t) \in Buffer
           /\ UndoneOrRedone(b, a, t).text = t
           /\ SameStacks(b, UndoneOrRedone(b, a, t))
           /\ UndoneOrRedone(b, a, t).modified = ~ (b.modified /\ b.modifying_action = a.id)
           /\ UndoneOrRedone(b, a, t).modifying_action =
                IF b.modified THEN IF b.modifying_action = a.id THEN None ELSE b.modifying_action
                ELSE a.id
<1>1. /\ a.id \in 0 .. MaxMade + 2 /\ b.modifying_action \in 0 .. MaxMade + 2
      /\ None \in 0 .. MaxMade + 2
  BY UndoAssumption DEF Action, Buffer, None
<1>2. CASE b.modified /\ b.modifying_action = a.id
  BY <1>1, <1>2 DEF UndoneOrRedone, SameStacks, Buffer
<1>3. CASE ~ (b.modified /\ b.modifying_action = a.id)
  BY <1>1, <1>3 DEF UndoneOrRedone, Modifier, SameStacks, Buffer
<1> QED
  BY <1>2, <1>3

\* One action undone is one place back on the line ...
LEMMA OneBack ==
    ASSUME NEW A, NEW T, NEW n, Line(A, T, n), NEW c \in 1 .. n, NEW b, NEW f,
           At(b, f, A, T, n, c)
    PROVE  At(Step(TRUE, b, A[c]), f, A, T, n, c - 1) /\ SameStacks(b, Step(TRUE, b, A[c]))
<1>1. /\ A[c] \in Action /\ T[c - 1] \in Text
      /\ T[c - 1] = Unapplied(b.text, A[c]) /\ b \in Buffer
  BY LineGoesBack DEF At
<1>2. PICK d : d = Step(TRUE, b, A[c])
  OBVIOUS
<1>3. d = UndoneOrRedone(b, A[c], T[c - 1])
  BY <1>1, <1>2 DEF Step
<1>4. /\ d \in Buffer /\ d.text = T[c - 1] /\ SameStacks(b, d)
      /\ d.modified = ~ (b.modified /\ b.modifying_action = A[c].id)
      /\ d.modifying_action =
            IF b.modified THEN IF b.modifying_action = A[c].id THEN None ELSE b.modifying_action
            ELSE A[c].id
  BY <1>1, <1>3, UndoneType
<1>5. n \in Nat /\ \A i, j \in 1 .. n : A[i].id = A[j].id => i = j
  BY DEF Line
<1>6. A[c].id # None /\ b.modified \in BOOLEAN
  BY <1>1 DEF Action, Buffer, None
<1>7. Marked(d, f, A, T, n, c - 1)
  <2>1. CASE ~ b.modified
    <3>1. d.modified /\ d.modifying_action = A[c].id /\ T[c] = f
      BY <1>4, <2>1 DEF At, Marked
    <3>2. ~(c <= c - 1)
      BY <1>5
    <3> QED  BY <3>1, <3>2 DEF Marked
  <2>2. CASE b.modified /\ b.modifying_action = A[c].id
    <3>1. ~ d.modified /\ d.modifying_action = None
      BY <1>4, <2>2
    <3>2. PICK k \in 1 .. n : A[k].id = A[c].id /\ (k <= c => T[k - 1] = f)
      BY <1>6, <2>2 DEF At, Marked
    <3>3. k = c /\ k <= c
      BY <1>5, <3>2
    <3> QED  BY <3>1, <3>2, <3>3 DEF Marked
  <2>3. CASE b.modified /\ b.modifying_action # A[c].id
    <3>1. d.modified /\ d.modifying_action = b.modifying_action
      BY <1>4, <2>3
    <3>2. ASSUME b.modifying_action # None
          PROVE  \E k \in 1 .. n : /\ A[k].id = b.modifying_action
                                   /\ k <= c - 1 => T[k - 1] = f
                                   /\ c - 1 < k => T[k] = f
      <4>1. PICK k \in 1 .. n : /\ A[k].id = b.modifying_action
                                /\ k <= c => T[k - 1] = f
                                /\ c < k => T[k] = f
        BY <3>2 DEF At, Marked
      <4>2. k # c
        BY <2>3, <4>1
      <4>3. (k <= c - 1 => k <= c) /\ (c - 1 < k => c < k)
        BY <1>5, <4>2
      <4> QED  BY <4>1, <4>3
    <3> QED  BY <3>1, <3>2 DEF Marked
  <2> QED  BY <1>6, <2>1, <2>2, <2>3
<1> QED
  BY <1>2, <1>4, <1>7 DEF At

\* ... and one redone is one place on.
LEMMA OneOn ==
    ASSUME NEW A, NEW T, NEW n, Line(A, T, n), NEW c \in 1 .. n, NEW b, NEW f,
           At(b, f, A, T, n, c - 1)
    PROVE  At(Step(FALSE, b, A[c]), f, A, T, n, c) /\ SameStacks(b, Step(FALSE, b, A[c]))
<1>1. /\ A[c] \in Action /\ T[c] \in Text
      /\ T[c] = Applied(b.text, A[c]) /\ b \in Buffer
  BY LineGoesBack DEF At
<1>2. PICK d : d = Step(FALSE, b, A[c])
  OBVIOUS
<1>3. d = UndoneOrRedone(b, A[c], T[c])
  BY <1>1, <1>2 DEF Step
<1>4. /\ d \in Buffer /\ d.text = T[c] /\ SameStacks(b, d)
      /\ d.modified = ~ (b.modified /\ b.modifying_action = A[c].id)
      /\ d.modifying_action =
            IF b.modified THEN IF b.modifying_action = A[c].id THEN None ELSE b.modifying_action
            ELSE A[c].id
  BY <1>1, <1>3, UndoneType
<1>5. n \in Nat /\ \A i, j \in 1 .. n : A[i].id = A[j].id => i = j
  BY DEF Line
<1>6. A[c].id # None /\ b.modified \in BOOLEAN
  BY <1>1 DEF Action, Buffer, None
<1>7. Marked(d, f, A, T, n, c)
  <2>1. CASE ~ b.modified
    <3>1. d.modified /\ d.modifying_action = A[c].id /\ T[c - 1] = f
      BY <1>4, <2>1 DEF At, Marked
    <3>2. ~(c < c)
      BY <1>5
    <3> QED  BY <3>1, <3>2 DEF Marked
  <2>2. CASE b.modified /\ b.modifying_action = A[c].id
    <3>1. ~ d.modified /\ d.modifying_action = None
      BY <1>4, <2>2
    <3>2. PICK k \in 1 .. n : A[k].id = A[c].id /\ (c - 1 < k => T[k] = f)
      BY <1>6, <2>2 DEF At, Marked
    <3>3. k = c /\ c - 1 < k
      BY <1>5, <3>2
    <3> QED  BY <3>1, <3>2, <3>3 DEF Marked
  <2>3. CASE b.modified /\ b.modifying_action # A[c].id
    <3>1. d.modified /\ d.modifying_action = b.modifying_action
      BY <1>4, <2>3
    <3>2. ASSUME b.modifying_action # None
          PROVE  \E k \in 1 .. n : /\ A[k].id = b.modifying_action
                                   /\ k <= c => T[k - 1] = f
                                   /\ c < k => T[k] = f
      <4>1. PICK k \in 1 .. n : /\ A[k].id = b.modifying_action
                                /\ k <= c - 1 => T[k - 1] = f
                                /\ c - 1 < k => T[k] = f
        BY <3>2 DEF At, Marked
      <4>2. k # c
        BY <2>3, <4>1
      <4>3. (k <= c => k <= c - 1) /\ (c < k => c - 1 < k)
        BY <1>5, <4>2
      <4> QED  BY <4>1, <4>3
    <3> QED  BY <3>1, <3>2 DEF Marked
  <2> QED  BY <1>6, <2>1, <2>2, <2>3
<1> QED
  BY <1>2, <1>4, <1>7 DEF At

\* So many are many places back or on.
LEMMA WalkBack ==
    ASSUME NEW A, NEW T, NEW n, Line(A, T, n), NEW c \in 0 .. n, NEW b, NEW f,
           At(b, f, A, T, n, c), NEW g, NEW l \in 0 .. c, Len(g) = l,
           \A j \in 1 .. l : g[j] = A[c - j + 1]
    PROVE  /\ At(Walked(TRUE, b, g), f, A, T, n, c - l)
           /\ SameStacks(b, Walked(TRUE, b, g))
<1>1. n \in Nat /\ c \in Nat /\ l \in Nat /\ l <= c /\ c <= n
  BY DEF Line
<1>2. PICK w : /\ w[0] = b
               /\ \A i \in 1 .. l : w[i] = Step(TRUE, w[i - 1], g[i])
               /\ Walked(TRUE, b, g) = w[l]
  <2>1. Len(g) \in Nat
    BY <1>1
  <2>2. Walk(TRUE, b, g)
    BY <2>1, WalkIs, Zenon
  <2> QED  BY <2>2 DEF Walk
<1> DEFINE Good(i) == At(w[i], f, A, T, n, c - i) /\ SameStacks(b, w[i])
           G == {i \in 0 .. l : Good(i)}
<1>3. Good(0)
  <2>1. c - 0 = c
    BY <1>1
  <2> QED  BY <1>2, <2>1 DEF SameStacks
<1>4. ASSUME NEW i \in 0 .. l - 1, Good(i) PROVE Good(i + 1)
  <2>1. /\ i + 1 \in 1 .. l /\ (i + 1) - 1 = i /\ c - i \in 1 .. n
        /\ c - (i + 1) + 1 = c - i /\ (c - i) - 1 = c - (i + 1)
    BY <1>1
  <2>2. w[i + 1] = Step(TRUE, w[i], A[c - i])
    BY <1>2, <2>1
  <2>3. PICK k \in 1 .. n : k = c - i
    BY <2>1
  <2>4. At(w[i], f, A, T, n, k)
    BY <1>4, <2>3
  <2>5. At(Step(TRUE, w[i], A[k]), f, A, T, n, k - 1) /\ SameStacks(w[i], Step(TRUE, w[i], A[k]))
    BY <2>4, OneBack, Zenon
  <2>6. At(w[i + 1], f, A, T, n, c - (i + 1)) /\ SameStacks(w[i], w[i + 1])
    BY <2>1, <2>2, <2>3, <2>5
  <2> QED  BY <1>4, <2>6 DEF SameStacks
<1>5. 0 .. l \subseteq G
  <2>1. 0 \in G
    BY <1>1, <1>3
  <2>2. \A i \in 0 .. l - 1 : i \in G => i + 1 \in G
    <3> SUFFICES ASSUME NEW i \in 0 .. l - 1, i \in G PROVE i + 1 \in G
      OBVIOUS
    <3>1. Good(i + 1) /\ i + 1 \in 0 .. l
      BY <1>1, <1>4
    <3> QED  BY <3>1
  <2> HIDE DEF G
  <2> QED  BY <1>1, <2>1, <2>2, Induction
<1>6. l \in G
  BY <1>1, <1>5
<1> QED
  BY <1>2, <1>6

LEMMA WalkOn ==
    ASSUME NEW A, NEW T, NEW n, Line(A, T, n), NEW c \in 0 .. n, NEW b, NEW f,
           At(b, f, A, T, n, c), NEW g, NEW l \in 0 .. n - c, Len(g) = l,
           \A j \in 1 .. l : g[j] = A[c + j]
    PROVE  /\ At(Walked(FALSE, b, g), f, A, T, n, c + l)
           /\ SameStacks(b, Walked(FALSE, b, g))
<1>1. n \in Nat /\ c \in Nat /\ l \in Nat /\ c + l <= n
  BY DEF Line
<1>2. PICK w : /\ w[0] = b
               /\ \A i \in 1 .. l : w[i] = Step(FALSE, w[i - 1], g[i])
               /\ Walked(FALSE, b, g) = w[l]
  <2>1. Len(g) \in Nat
    BY <1>1
  <2>2. Walk(FALSE, b, g)
    BY <2>1, WalkIs, Zenon
  <2> QED  BY <2>2 DEF Walk
<1> DEFINE Good(i) == At(w[i], f, A, T, n, c + i) /\ SameStacks(b, w[i])
           G == {i \in 0 .. l : Good(i)}
<1>3. Good(0)
  <2>1. c + 0 = c
    BY <1>1
  <2> QED  BY <1>2, <2>1 DEF SameStacks
<1>4. ASSUME NEW i \in 0 .. l - 1, Good(i) PROVE Good(i + 1)
  <2>1. /\ i + 1 \in 1 .. l /\ (i + 1) - 1 = i /\ c + (i + 1) \in 1 .. n
        /\ c + (i + 1) - 1 = c + i
    BY <1>1
  <2>2. w[i + 1] = Step(FALSE, w[i], A[c + (i + 1)])
    BY <1>2, <2>1
  <2>3. PICK k \in 1 .. n : k = c + (i + 1)
    BY <2>1
  <2>4. At(w[i], f, A, T, n, k - 1)
    BY <1>4, <2>1, <2>3
  <2>5. At(Step(FALSE, w[i], A[k]), f, A, T, n, k) /\ SameStacks(w[i], Step(FALSE, w[i], A[k]))
    BY <2>4, OneOn, Zenon
  <2>6. At(w[i + 1], f, A, T, n, c + (i + 1)) /\ SameStacks(w[i], w[i + 1])
    BY <2>2, <2>3, <2>5
  <2> QED  BY <1>4, <2>6 DEF SameStacks
<1>5. 0 .. l \subseteq G
  <2>1. 0 \in G
    BY <1>1, <1>3
  <2>2. \A i \in 0 .. l - 1 : i \in G => i + 1 \in G
    <3> SUFFICES ASSUME NEW i \in 0 .. l - 1, i \in G PROVE i + 1 \in G
      OBVIOUS
    <3>1. Good(i + 1) /\ i + 1 \in 0 .. l
      BY <1>1, <1>4
    <3> QED  BY <3>1
  <2> HIDE DEF G
  <2> QED  BY <1>1, <2>1, <2>2, Induction
<1>6. l \in G
  BY <1>1, <1>5
<1> QED
  BY <1>2, <1>6

-----------------------------------------------------------------------------
(* Stacks of groups, and where their groups begin and end on the line.     *)

LEMMA Push ==
    ASSUME NEW S, NEW g \in S, NEW gs \in Seq(S), NEW n, n = Len(gs)
    PROVE  /\ n \in Nat
           /\ <<g>> \o gs \in Seq(S) /\ <<g>> \o gs # <<>>
           /\ Len(<<g>> \o gs) = n + 1
           /\ (<<g>> \o gs)[1] = g
           /\ \A i \in 1 .. n : (<<g>> \o gs)[i + 1] = gs[i]
<1>1. n \in Nat
  OBVIOUS
<1>2. PICK s : s = <<g>> \o gs
  OBVIOUS
<1>3. /\ s \in Seq(S) /\ Len(s) = 1 + n
      /\ \A i \in 1 .. 1 + n : s[i] = IF i <= 1 THEN <<g>>[i] ELSE gs[i - 1]
  <2>1. <<g>> \in Seq(S) /\ Len(<<g>>) = 1
    OBVIOUS
  <2> QED  BY <1>2, <2>1, ConcatProperties
<1>4. s[1] = g
  <2>1. 1 \in 1 .. 1 + n
    BY <1>1
  <2> QED  BY <1>3, <2>1
<1>5. \A i \in 1 .. n : s[i + 1] = gs[i]
  <2> SUFFICES ASSUME NEW i \in 1 .. n PROVE s[i + 1] = gs[i]
    OBVIOUS
  <2>1. i + 1 \in 1 .. 1 + n /\ ~(i + 1 <= 1) /\ (i + 1) - 1 = i
    BY <1>1
  <2> QED  BY <1>3, <2>1
<1>6. s # <<>>
  BY <1>1, <1>3
<1> QED
  BY <1>1, <1>2, <1>3, <1>4, <1>5, <1>6

LEMMA Pop ==
    ASSUME NEW S, NEW gs \in Seq(S), gs # <<>>, NEW n, n = Len(gs)
    PROVE  /\ n \in Nat /\ n >= 1
           /\ Head(gs) = gs[1] /\ Head(gs) \in S
           /\ Tail(gs) \in Seq(S) /\ Len(Tail(gs)) = n - 1
           /\ \A i \in 1 .. n - 1 : Tail(gs)[i] = gs[i + 1]
           /\ gs = <<Head(gs)>> \o Tail(gs)
<1>1. n \in Nat /\ n >= 1
  BY EmptySeq
<1>2. Head(gs) = gs[1] /\ Head(gs) \in S
  BY <1>1
<1>3. /\ Tail(gs) \in Seq(S) /\ Len(Tail(gs)) = n - 1
      /\ \A i \in 1 .. n - 1 : Tail(gs)[i] = gs[i + 1]
  BY HeadTailProperties
<1>4. gs = <<Head(gs)>> \o Tail(gs)
  BY HeadTailProperties
<1> QED
  BY <1>1, <1>2, <1>3, <1>4

LEMMA ReverseIs ==
    ASSUME NEW S, NEW g \in Seq(S), NEW n, n = Len(g)
    PROVE  /\ Reverse(g) \in Seq(S) /\ Len(Reverse(g)) = n
           /\ \A i \in 1 .. n : Reverse(g)[i] = g[n - i + 1]
<1>1. n \in Nat /\ \A i \in 1 .. n : g[i] \in S
  OBVIOUS
<1>2. \A i \in 1 .. n : n - i + 1 \in 1 .. n
  BY <1>1
<1>3. Reverse(g) = [i \in 1 .. n |-> g[n - i + 1]]
  BY DEF Reverse
<1>4. Reverse(g) \in [1 .. n -> S]
  BY <1>1, <1>2, <1>3
<1>5. Reverse(g) \in Seq(S) /\ Len(Reverse(g)) = n
  BY <1>1, <1>4
<1> QED
  BY <1>3, <1>5

\* The group us[i] of what can be undone is the part of the line after the place B[i]
\* up to B[i - 1].
UndoIs(us, A, c, B) ==
    /\ us \in Seq(Group)
    /\ B \in [0 .. Len(us) -> Nat] /\ B[0] = c /\ B[Len(us)] = 0
    /\ \A i \in 1 .. Len(us) :
          /\ B[i - 1] = B[i] + Len(us[i])
          /\ \A j \in 1 .. Len(us[i]) : us[i][j] = A[B[i - 1] - j + 1]

\* The group rs[i] of what can be redone is the part after D[i - 1] up to D[i].
RedoIs(rs, A, c, n, D) ==
    /\ rs \in Seq(Group)
    /\ D \in [0 .. Len(rs) -> Nat] /\ D[0] = c /\ D[Len(rs)] = n
    /\ \A i \in 1 .. Len(rs) :
          /\ D[i] = D[i - 1] + Len(rs[i])
          /\ \A j \in 1 .. Len(rs[i]) : rs[i][j] = A[D[i] - j + 1]

\* A function of 0 .. k without its first value, and with one before it.
Later(B, k) == [i \in 0 .. k - 1 |-> B[i + 1]]
Before(m, B, k) == [i \in 0 .. k + 1 |-> IF i = 0 THEN m ELSE B[i - 1]]

LEMMA GroupLength ==
    ASSUME NEW g \in Group
    PROVE  g \in Seq(Action) /\ Len(g) \in Nat /\ Len(g) >= 1
BY EmptySeq DEF Group

LEMMA BeforeIs ==
    ASSUME NEW m, NEW B, NEW k \in Nat
    PROVE  /\ Before(m, B, k)[0] = m
           /\ \A i \in 0 .. k : Before(m, B, k)[i + 1] = B[i]
<1>1. 0 \in 0 .. k + 1 /\ \A i \in 0 .. k : i + 1 \in 0 .. k + 1 /\ i + 1 # 0 /\ (i + 1) - 1 = i
  OBVIOUS
<1> QED
  BY <1>1 DEF Before

LEMMA PopUndo ==
    ASSUME NEW us, NEW A, NEW c, NEW B, UndoIs(us, A, c, B), us # <<>>
    PROVE  /\ c \in Nat /\ B[1] \in Nat /\ Head(us) \in Group
           /\ c = B[1] + Len(Head(us))
           /\ \A j \in 1 .. Len(Head(us)) : Head(us)[j] = A[c - j + 1]
           /\ UndoIs(Tail(us), A, B[1], Later(B, Len(us)))
<1>1. PICK k \in Nat : k = Len(us) /\ k >= 1
  BY Pop DEF UndoIs
<1>2. PICK g, ts : g = Head(us) /\ ts = Tail(us)
  OBVIOUS
<1>3. /\ g = us[1] /\ g \in Group /\ ts \in Seq(Group) /\ Len(ts) = k - 1
      /\ \A i \in 1 .. k - 1 : ts[i] = us[i + 1]
  BY <1>1, <1>2, Pop DEF UndoIs
<1>4. /\ B \in [0 .. k -> Nat] /\ B[0] = c /\ B[k] = 0
      /\ \A i \in 1 .. k : /\ B[i - 1] = B[i] + Len(us[i])
                           /\ \A j \in 1 .. Len(us[i]) : us[i][j] = A[B[i - 1] - j + 1]
  BY <1>1 DEF UndoIs
<1>5. /\ c \in Nat /\ B[1] \in Nat /\ c = B[1] + Len(g)
      /\ \A j \in 1 .. Len(g) : g[j] = A[c - j + 1]
  <2>1. 1 \in 1 .. k /\ 1 - 1 = 0 /\ 0 \in 0 .. k /\ 1 \in 0 .. k
    BY <1>1
  <2> QED  BY <1>3, <1>4, <2>1
<1>6. PICK L : L = Later(B, k)
  OBVIOUS
<1>7. L \in [0 .. k - 1 -> Nat] /\ \A i \in 0 .. k - 1 : L[i] = B[i + 1]
  <2>1. \A i \in 0 .. k - 1 : i + 1 \in 0 .. k
    BY <1>1
  <2> QED  BY <1>4, <1>6, <2>1 DEF Later
<1>8. L[0] = B[1] /\ L[k - 1] = 0
  <2>1. 0 \in 0 .. k - 1 /\ k - 1 \in 0 .. k - 1 /\ 0 + 1 = 1 /\ (k - 1) + 1 = k
    BY <1>1
  <2> QED  BY <1>4, <1>7, <2>1
<1>9. ASSUME NEW i \in 1 .. k - 1
      PROVE  /\ L[i - 1] = L[i] + Len(ts[i])
             /\ \A j \in 1 .. Len(ts[i]) : ts[i][j] = A[L[i - 1] - j + 1]
  <2>1. /\ i - 1 \in 0 .. k - 1 /\ i \in 0 .. k - 1 /\ (i - 1) + 1 = i
        /\ i + 1 \in 1 .. k /\ (i + 1) - 1 = i
    BY <1>1
  <2>2. L[i - 1] = B[i] /\ L[i] = B[i + 1] /\ ts[i] = us[i + 1]
    BY <1>3, <1>7, <2>1
  <2>3. /\ B[i] = B[i + 1] + Len(us[i + 1])
        /\ \A j \in 1 .. Len(us[i + 1]) : us[i + 1][j] = A[B[i] - j + 1]
    BY <1>4, <2>1, ZenonT(90)
  <2> QED  BY <2>2, <2>3
<1>10. UndoIs(ts, A, B[1], L)
  BY <1>3, <1>7, <1>8, <1>9 DEF UndoIs
<1> QED
  BY <1>1, <1>2, <1>3, <1>5, <1>6, <1>10

LEMMA PushUndo ==
    ASSUME NEW us, NEW A, NEW c, NEW B, UndoIs(us, A, c, B), NEW g \in Group,
           NEW m, m = c + Len(g), \A j \in 1 .. Len(g) : g[j] = A[m - j + 1]
    PROVE  UndoIs(<<g>> \o us, A, m, Before(m, B, Len(us)))
<1>1. PICK k \in Nat : k = Len(us) /\ us \in Seq(Group)
  BY DEF UndoIs
<1>2. PICK ps : ps = <<g>> \o us
  OBVIOUS
<1>3. /\ ps \in Seq(Group) /\ Len(ps) = k + 1 /\ ps[1] = g
      /\ \A i \in 1 .. k : ps[i + 1] = us[i]
  BY <1>1, <1>2, Push
<1>4. /\ B \in [0 .. k -> Nat] /\ B[0] = c /\ B[k] = 0
      /\ \A i \in 1 .. k : /\ B[i - 1] = B[i] + Len(us[i])
                           /\ \A j \in 1 .. Len(us[i]) : us[i][j] = A[B[i - 1] - j + 1]
  BY <1>1 DEF UndoIs
<1>5. PICK P : P = Before(m, B, k)
  OBVIOUS
<1>6. P[0] = m /\ \A i \in 0 .. k : P[i + 1] = B[i]
  BY <1>5, BeforeIs
<1>7. m \in Nat
  <2>1. c \in Nat /\ Len(g) \in Nat
    BY <1>4, GroupLength
  <2> QED  BY <2>1
<1>8. P \in [0 .. k + 1 -> Nat]
  <2>1. ASSUME NEW i \in 0 .. k + 1 PROVE (IF i = 0 THEN m ELSE B[i - 1]) \in Nat
    <3>1. i # 0 => i - 1 \in 0 .. k
      OBVIOUS
    <3> QED  BY <1>4, <1>7, <3>1
  <2> QED  BY <1>5, <2>1 DEF Before
<1>9. P[k + 1] = 0
  BY <1>4, <1>6
<1>10. ASSUME NEW i \in 1 .. k + 1
       PROVE  /\ P[i - 1] = P[i] + Len(ps[i])
              /\ \A j \in 1 .. Len(ps[i]) : ps[i][j] = A[P[i - 1] - j + 1]
  <2>1. CASE i = 1
    <3>1. P[i - 1] = m /\ P[i] = c /\ ps[i] = g
      <4>1. i - 1 = 0 /\ i = 0 + 1 /\ 0 \in 0 .. k
        BY <2>1
      <4> QED  BY <1>3, <1>4, <1>6, <2>1, <4>1
    <3> QED  BY <3>1
  <2>2. CASE i # 1
    <3>1. PICK e \in 1 .. k : i = e + 1 /\ e - 1 \in 0 .. k /\ e \in 0 .. k /\ i - 1 = (e - 1) + 1
      <4>1. i - 1 \in 1 .. k /\ i = (i - 1) + 1 /\ (i - 1) - 1 \in 0 .. k /\ i - 1 \in 0 .. k
            /\ i - 1 = ((i - 1) - 1) + 1
        BY <2>2
      <4> QED  BY <4>1
    <3>2. P[i - 1] = B[e - 1] /\ P[i] = B[e] /\ ps[i] = us[e]
      BY <1>3, <1>6, <3>1
    <3> QED  BY <1>4, <3>2
  <2> QED  BY <2>1, <2>2
<1>11. UndoIs(ps, A, m, P)
  BY <1>3, <1>6, <1>8, <1>9, <1>10 DEF UndoIs
<1> QED
  BY <1>1, <1>2, <1>5, <1>11

LEMMA PopRedo ==
    ASSUME NEW rs, NEW A, NEW c, NEW n, NEW D, RedoIs(rs, A, c, n, D), rs # <<>>
    PROVE  /\ c \in Nat /\ D[1] \in Nat /\ Head(rs) \in Group
           /\ D[1] = c + Len(Head(rs))
           /\ \A j \in 1 .. Len(Head(rs)) : Head(rs)[j] = A[D[1] - j + 1]
           /\ RedoIs(Tail(rs), A, D[1], n, Later(D, Len(rs)))
<1>1. PICK k \in Nat : k = Len(rs) /\ k >= 1
  BY Pop DEF RedoIs
<1>2. PICK g, ts : g = Head(rs) /\ ts = Tail(rs)
  OBVIOUS
<1>3. /\ g = rs[1] /\ g \in Group /\ ts \in Seq(Group) /\ Len(ts) = k - 1
      /\ \A i \in 1 .. k - 1 : ts[i] = rs[i + 1]
  BY <1>1, <1>2, Pop DEF RedoIs
<1>4. /\ D \in [0 .. k -> Nat] /\ D[0] = c /\ D[k] = n
      /\ \A i \in 1 .. k : /\ D[i] = D[i - 1] + Len(rs[i])
                           /\ \A j \in 1 .. Len(rs[i]) : rs[i][j] = A[D[i] - j + 1]
  BY <1>1 DEF RedoIs
<1>5. /\ c \in Nat /\ D[1] \in Nat /\ D[1] = c + Len(g)
      /\ \A j \in 1 .. Len(g) : g[j] = A[D[1] - j + 1]
  <2>1. 1 \in 1 .. k /\ 1 - 1 = 0 /\ 0 \in 0 .. k /\ 1 \in 0 .. k
    BY <1>1
  <2> QED  BY <1>3, <1>4, <2>1
<1>6. PICK L : L = Later(D, k)
  OBVIOUS
<1>7. L \in [0 .. k - 1 -> Nat] /\ \A i \in 0 .. k - 1 : L[i] = D[i + 1]
  <2>1. \A i \in 0 .. k - 1 : i + 1 \in 0 .. k
    BY <1>1
  <2> QED  BY <1>4, <1>6, <2>1 DEF Later
<1>8. L[0] = D[1] /\ L[k - 1] = n
  <2>1. 0 \in 0 .. k - 1 /\ k - 1 \in 0 .. k - 1 /\ 0 + 1 = 1 /\ (k - 1) + 1 = k
    BY <1>1
  <2> QED  BY <1>4, <1>7, <2>1
<1>9. ASSUME NEW i \in 1 .. k - 1
      PROVE  /\ L[i] = L[i - 1] + Len(ts[i])
             /\ \A j \in 1 .. Len(ts[i]) : ts[i][j] = A[L[i] - j + 1]
  <2>1. /\ i - 1 \in 0 .. k - 1 /\ i \in 0 .. k - 1 /\ (i - 1) + 1 = i
        /\ i + 1 \in 1 .. k /\ (i + 1) - 1 = i
    BY <1>1
  <2>2. L[i - 1] = D[i] /\ L[i] = D[i + 1] /\ ts[i] = rs[i + 1]
    BY <1>3, <1>7, <2>1
  <2>3. /\ D[i + 1] = D[i] + Len(rs[i + 1])
        /\ \A j \in 1 .. Len(rs[i + 1]) : rs[i + 1][j] = A[D[i + 1] - j + 1]
    BY <1>4, <2>1
  <2> QED  BY <2>2, <2>3
<1>10. RedoIs(ts, A, D[1], n, L)
  BY <1>3, <1>7, <1>8, <1>9 DEF RedoIs
<1> QED
  BY <1>1, <1>2, <1>3, <1>5, <1>6, <1>10

LEMMA PushRedo ==
    ASSUME NEW rs, NEW A, NEW c, NEW n, NEW D, RedoIs(rs, A, c, n, D), NEW g \in Group,
           NEW m \in Nat, c = m + Len(g), \A j \in 1 .. Len(g) : g[j] = A[c - j + 1]
    PROVE  RedoIs(<<g>> \o rs, A, m, n, Before(m, D, Len(rs)))
<1>1. PICK k \in Nat : k = Len(rs) /\ rs \in Seq(Group)
  BY DEF RedoIs
<1>2. PICK ps : ps = <<g>> \o rs
  OBVIOUS
<1>3. /\ ps \in Seq(Group) /\ Len(ps) = k + 1 /\ ps[1] = g
      /\ \A i \in 1 .. k : ps[i + 1] = rs[i]
  BY <1>1, <1>2, Push
<1>4. /\ D \in [0 .. k -> Nat] /\ D[0] = c /\ D[k] = n
      /\ \A i \in 1 .. k : /\ D[i] = D[i - 1] + Len(rs[i])
                           /\ \A j \in 1 .. Len(rs[i]) : rs[i][j] = A[D[i] - j + 1]
  BY <1>1 DEF RedoIs
<1>5. PICK P : P = Before(m, D, k)
  OBVIOUS
<1>6. P[0] = m /\ \A i \in 0 .. k : P[i + 1] = D[i]
  BY <1>5, BeforeIs
<1>8. P \in [0 .. k + 1 -> Nat]
  <2>1. ASSUME NEW i \in 0 .. k + 1 PROVE (IF i = 0 THEN m ELSE D[i - 1]) \in Nat
    <3>1. i # 0 => i - 1 \in 0 .. k
      OBVIOUS
    <3> QED  BY <1>4, <3>1
  <2> QED  BY <1>5, <2>1 DEF Before
<1>9. P[k + 1] = n
  BY <1>4, <1>6
<1>10. ASSUME NEW i \in 1 .. k + 1
       PROVE  /\ P[i] = P[i - 1] + Len(ps[i])
              /\ \A j \in 1 .. Len(ps[i]) : ps[i][j] = A[P[i] - j + 1]
  <2>1. CASE i = 1
    <3>1. P[i - 1] = m /\ P[i] = c /\ ps[i] = g
      <4>1. i - 1 = 0 /\ i = 0 + 1 /\ 0 \in 0 .. k
        BY <2>1
      <4> QED  BY <1>3, <1>4, <1>6, <2>1, <4>1
    <3> QED  BY <3>1
  <2>2. CASE i # 1
    <3>1. PICK e \in 1 .. k : i = e + 1 /\ e - 1 \in 0 .. k /\ e \in 0 .. k /\ i - 1 = (e - 1) + 1
      <4>1. i - 1 \in 1 .. k /\ i = (i - 1) + 1 /\ (i - 1) - 1 \in 0 .. k /\ i - 1 \in 0 .. k
            /\ i - 1 = ((i - 1) - 1) + 1
        BY <2>2
      <4> QED  BY <4>1
    <3>2. P[i - 1] = D[e - 1] /\ P[i] = D[e] /\ ps[i] = rs[e]
      BY <1>3, <1>6, <3>1
    <3> QED  BY <1>4, <3>2
  <2> QED  BY <2>1, <2>2
<1>11. RedoIs(ps, A, m, n, P)
  BY <1>3, <1>6, <1>8, <1>9, <1>10 DEF RedoIs
<1> QED
  BY <1>1, <1>2, <1>5, <1>11

\* Groups that can be redone end where the line ends, and no later.
RedoLimit(rs, A, c, n, D) == \A i \in 0 .. Len(rs) : D[i] \in c .. n

LEMMA RedoWithin ==
    ASSUME NEW rs, NEW A, NEW c, NEW n, NEW D, RedoIs(rs, A, c, n, D)
    PROVE  c \in Nat /\ n \in Nat /\ c <= n /\ RedoLimit(rs, A, c, n, D)
<1>1. PICK k \in Nat : k = Len(rs)
  BY DEF RedoIs
<1>2. /\ D \in [0 .. k -> Nat] /\ D[0] = c /\ D[k] = n
      /\ \A i \in 1 .. k : D[i] = D[i - 1] + Len(rs[i]) /\ rs[i] \in Group
  BY <1>1 DEF RedoIs
<1>3. \A i \in 0 .. k - 1 : D[i] <= D[i + 1]
  <2> SUFFICES ASSUME NEW i \in 0 .. k - 1 PROVE D[i] <= D[i + 1]
    OBVIOUS
  <2>1. i + 1 \in 1 .. k /\ (i + 1) - 1 = i /\ i \in 0 .. k
    BY <1>1
  <2>2. D[i + 1] = D[i] + Len(rs[i + 1]) /\ Len(rs[i + 1]) \in Nat
    BY <1>2, <2>1, GroupLength
  <2> QED  BY <1>2, <2>1, <2>2
<1>4. ASSUME NEW i \in 0 .. k PROVE c <= D[i]
  <2> DEFINE G == {e \in 0 .. k : c <= D[e]}
  <2>1. 0 \in G
    BY <1>2
  <2>2. \A e \in 0 .. k - 1 : e \in G => e + 1 \in G
    <3> SUFFICES ASSUME NEW e \in 0 .. k - 1, e \in G PROVE e + 1 \in G
      OBVIOUS
    <3>1. e + 1 \in 0 .. k /\ e \in 0 .. k
      BY <1>1
    <3>2. c <= D[e + 1]
      <4>1. c \in Nat /\ D[e] \in Nat /\ D[e + 1] \in Nat /\ c <= D[e] /\ D[e] <= D[e + 1]
        BY <1>2, <1>3, <3>1
      <4> QED  BY <4>1
    <3> QED  BY <3>1, <3>2
  <2>3. 0 .. k \subseteq G
    <3> HIDE DEF G
    <3> QED  BY <2>1, <2>2, Induction
  <2> QED  BY <2>3
<1>5. ASSUME NEW i \in 0 .. k PROVE D[i] <= n
  <2> DEFINE G == {e \in 0 .. k : D[k - e] <= n}
  <2>1. 0 \in G
    BY <1>2
  <2>2. \A e \in 0 .. k - 1 : e \in G => e + 1 \in G
    <3> SUFFICES ASSUME NEW e \in 0 .. k - 1, e \in G PROVE e + 1 \in G
      OBVIOUS
    <3>1. PICK h \in 0 .. k - 1 : h = k - (e + 1) /\ h + 1 = k - e
      <4>1. k - (e + 1) \in 0 .. k - 1 /\ (k - (e + 1)) + 1 = k - e
        OBVIOUS
      <4> QED  BY <4>1
    <3>2. D[h] <= D[h + 1] /\ D[h + 1] <= n
      BY <1>3, <3>1
    <3>3. D[h] \in Nat /\ D[h + 1] \in Nat /\ n \in Nat
      BY <1>2, <3>1
    <3>4. D[h] <= n
      BY <3>2, <3>3
    <3> QED  BY <3>1, <3>4
  <2>3. 0 .. k \subseteq G
    <3> HIDE DEF G
    <3> QED  BY <2>1, <2>2, Induction
  <2>4. k - i \in G /\ k - (k - i) = i
    BY <2>3
  <2> QED  BY <2>4
<1> QED
  <2>1. c \in Nat /\ n \in Nat /\ \A i \in 0 .. k : D[i] \in Nat
    BY <1>2
  <2>2. c <= n
    BY <1>2, <1>4
  <2> QED  BY <1>1, <1>4, <1>5, <2>1, <2>2 DEF RedoLimit

-----------------------------------------------------------------------------
(* The buffer on its line. *)

OnLine(b, f, A, T, n, c, B, D) ==
    /\ Line(A, T, n)
    /\ c \in 0 .. n
    /\ At(b, f, A, T, n, c)
    /\ UndoIs(b.undo_stack, A, c, B)
    /\ RedoIs(b.redo_stack, A, c, n, D)
    /\ \A i \in 1 .. n : A[i].id <= b.made

\* What undo and redo do to the stacks, before they do anything to the text.
Popped(b) == [b EXCEPT !.undo_stack = Tail(@),
                       !.redo_stack = <<Head(b.undo_stack)>> \o @,
                       !.new_group = TRUE]
Pushed(b) == [b EXCEPT !.redo_stack = Tail(@),
                       !.undo_stack = <<Head(b.redo_stack)>> \o @,
                       !.new_group = TRUE]

SameBut(b, d) == d.do_continue = b.do_continue /\ d.new_group = TRUE /\ d.made = b.made

\* A group undone is on the other stack, and the buffer where the group began.
LEMMA UndoMoves ==
    ASSUME NEW b, NEW f, NEW A, NEW T, NEW n, NEW c, NEW B, NEW D,
           OnLine(b, f, A, T, n, c, B, D), b.undo_stack # <<>>
    PROVE  LET d == GroupUndone(Popped(b), Head(b.undo_stack)) IN
           /\ OnLine(d, f, A, T, n, B[1], Later(B, Len(b.undo_stack)),
                     Before(B[1], D, Len(b.redo_stack)))
           /\ SameBut(b, d)
           /\ d.undo_stack = Tail(b.undo_stack)
           /\ d.redo_stack = <<Head(b.undo_stack)>> \o b.redo_stack
<1>1. PICK us, rs, g : us = b.undo_stack /\ rs = b.redo_stack /\ g = Head(b.undo_stack)
  OBVIOUS
<1>2. /\ c \in Nat /\ B[1] \in Nat /\ g \in Group /\ c = B[1] + Len(g)
      /\ \A j \in 1 .. Len(g) : g[j] = A[c - j + 1]
      /\ UndoIs(Tail(us), A, B[1], Later(B, Len(us)))
  BY <1>1, PopUndo DEF OnLine
<1>3. RedoIs(<<g>> \o rs, A, B[1], n, Before(B[1], D, Len(rs)))
  <2>1. RedoIs(rs, A, c, n, D)
    BY <1>1 DEF OnLine
  <2> QED  BY <1>2, <2>1, PushRedo, ZenonT(60)
<1>4. PICK p : p = Popped(b)
  OBVIOUS
<1>5. b \in Buffer
  BY DEF OnLine, At
<1>6. /\ p \in Buffer /\ p.undo_stack = Tail(us) /\ p.redo_stack = <<g>> \o rs
      /\ p.text = b.text /\ p.modified = b.modified
      /\ p.modifying_action = b.modifying_action
      /\ SameBut(b, p)
  <2>1. Tail(us) \in Seq(Group) /\ <<g>> \o rs \in Seq(Group)
    BY <1>2, <1>3 DEF UndoIs, RedoIs
  <2> QED  BY <1>1, <1>4, <1>5, <2>1 DEF Popped, Buffer, SameBut
<1>7. At(p, f, A, T, n, c)
  <2>1. b.text = T[c] /\ Marked(b, f, A, T, n, c)
    BY DEF OnLine, At
  <2>2. Marked(p, f, A, T, n, c)
    BY <1>6, <2>1 DEF Marked
  <2> QED  BY <1>6, <2>1, <2>2 DEF At
<1>8. PICK l \in 0 .. c : l = Len(g) /\ c - l = B[1]
  <2>1. Len(g) \in Nat
    BY <1>2, GroupLength
  <2>2. PICK l \in Nat, e \in Nat : l = Len(g) /\ e = B[1]
    BY <1>2, <2>1
  <2>3. c = e + l
    BY <1>2, <2>2
  <2>4. l \in 0 .. c /\ c - l = e
    BY <2>2, <2>3
  <2> QED  BY <2>2, <2>4
<1>9. PICK d : d = GroupUndone(p, g)
  OBVIOUS
<1>10. At(d, f, A, T, n, B[1]) /\ SameStacks(p, d)
  <2>1. /\ Line(A, T, n) /\ c \in 0 .. n /\ Len(g) = l
        /\ \A j \in 1 .. l : g[j] = A[c - j + 1]
    BY <1>2, <1>8 DEF OnLine
  <2>2. At(Walked(TRUE, p, g), f, A, T, n, c - l) /\ SameStacks(p, Walked(TRUE, p, g))
    BY <1>7, <2>1, WalkBack, Zenon
  <2> QED  BY <1>8, <1>9, <2>2 DEF GroupUndone
<1>11. B[1] \in 0 .. n
  BY <1>8 DEF OnLine, Line
<1>12. d.made = b.made /\ d.undo_stack = Tail(us) /\ d.redo_stack = <<g>> \o rs /\ SameBut(b, d)
  BY <1>6, <1>10 DEF SameStacks, SameBut
<1>13. OnLine(d, f, A, T, n, B[1], Later(B, Len(us)), Before(B[1], D, Len(rs)))
  BY <1>2, <1>3, <1>10, <1>11, <1>12 DEF OnLine
<1> QED
  BY <1>1, <1>4, <1>9, <1>12, <1>13

\* A group redone is back on the first stack, and the buffer where the group ends.
LEMMA RedoMoves ==
    ASSUME NEW b, NEW f, NEW A, NEW T, NEW n, NEW c, NEW B, NEW D,
           OnLine(b, f, A, T, n, c, B, D), b.redo_stack # <<>>
    PROVE  LET d == GroupRedone(Pushed(b), Head(b.redo_stack)) IN
           /\ OnLine(d, f, A, T, n, D[1], Before(D[1], B, Len(b.undo_stack)),
                     Later(D, Len(b.redo_stack)))
           /\ SameBut(b, d)
           /\ d.redo_stack = Tail(b.redo_stack)
           /\ d.undo_stack = <<Head(b.redo_stack)>> \o b.undo_stack
<1>1. PICK us, rs, g : us = b.undo_stack /\ rs = b.redo_stack /\ g = Head(b.redo_stack)
  OBVIOUS
<1>2. /\ c \in Nat /\ D[1] \in Nat /\ g \in Group /\ D[1] = c + Len(g)
      /\ \A j \in 1 .. Len(g) : g[j] = A[D[1] - j + 1]
      /\ RedoIs(Tail(rs), A, D[1], n, Later(D, Len(rs)))
  <2>1. RedoIs(rs, A, c, n, D) /\ rs # <<>>
    BY <1>1 DEF OnLine
  <2> QED  BY <1>1, <2>1, PopRedo
<1>3. UndoIs(<<g>> \o us, A, D[1], Before(D[1], B, Len(us)))
  <2>1. UndoIs(us, A, c, B)
    BY <1>1 DEF OnLine
  <2> QED  BY <1>2, <2>1, PushUndo, Zenon
<1>4. PICK p : p = Pushed(b)
  OBVIOUS
<1>5. b \in Buffer
  BY DEF OnLine, At
<1>6. /\ p \in Buffer /\ p.redo_stack = Tail(rs) /\ p.undo_stack = <<g>> \o us
      /\ p.text = b.text /\ p.modified = b.modified
      /\ p.modifying_action = b.modifying_action
      /\ SameBut(b, p)
  <2>1. Tail(rs) \in Seq(Group) /\ <<g>> \o us \in Seq(Group)
    BY <1>2, <1>3 DEF UndoIs, RedoIs
  <2> QED  BY <1>1, <1>4, <1>5, <2>1 DEF Pushed, Buffer, SameBut
<1>7. At(p, f, A, T, n, c)
  <2>1. b.text = T[c] /\ Marked(b, f, A, T, n, c)
    BY DEF OnLine, At
  <2>2. Marked(p, f, A, T, n, c)
    BY <1>6, <2>1 DEF Marked
  <2> QED  BY <1>6, <2>1, <2>2 DEF At
<1>8. PICK l \in Nat : l = Len(g) /\ c + l = D[1]
  BY <1>2, GroupLength
<1>9. PICK d : d = GroupRedone(p, g)
  OBVIOUS
<1>a. n \in Nat /\ c \in 0 .. n /\ D[1] \in 0 .. n
  <2>1. n \in Nat /\ c \in 0 .. n
    BY DEF OnLine, Line
  <2>2. D[1] <= n
    <3>1. RedoLimit(Tail(rs), A, D[1], n, Later(D, Len(rs)))
      BY <1>2, RedoWithin, Zenon
    <3>2. PICK k \in Nat : k = Len(Tail(rs))
      <4>1. PICK ts : ts = Tail(rs)
        OBVIOUS
      <4>2. ts \in Seq(Group)
        BY <1>2, <4>1, Zenon DEF RedoIs
      <4> QED  BY <4>1, <4>2
    <3>3. Later(D, Len(rs))[0] = D[1]
      BY <1>2 DEF RedoIs
    <3>4. 0 \in 0 .. k
      BY <3>2
    <3>5. D[1] \in D[1] .. n
      BY <3>1, <3>2, <3>3, <3>4, Zenon DEF RedoLimit
    <3> QED  BY <1>2, <2>1, <3>5
  <2> QED  BY <1>2, <2>1, <2>2
<1>10. At(d, f, A, T, n, D[1]) /\ SameStacks(p, d)
  <2>1. PICK h : h = Reverse(g)
    OBVIOUS
  <2>2. Len(h) = l /\ \A j \in 1 .. l : h[j] = g[l - j + 1]
    <3>1. g \in Seq(Action)
      BY <1>2, GroupLength
    <3> QED  BY <1>8, <2>1, <3>1, ReverseIs
  <2>3. \A j \in 1 .. l : h[j] = A[c + j]
    <3> SUFFICES ASSUME NEW j \in 1 .. l PROVE h[j] = A[c + j]
      OBVIOUS
    <3>1. PICK k \in 1 .. l : k = l - j + 1 /\ D[1] - k + 1 = c + j
      <4>1. l - j + 1 \in 1 .. l /\ D[1] - (l - j + 1) + 1 = c + j
        BY <1>2, <1>8
      <4> QED  BY <4>1
    <3> QED  BY <1>2, <1>8, <2>2, <3>1
  <2>4. Line(A, T, n) /\ c \in 0 .. n /\ Len(h) = l /\ l \in 0 .. n - c
    BY <1>8, <1>a, <2>2 DEF OnLine
  <2>5. At(Walked(FALSE, p, h), f, A, T, n, c + l) /\ SameStacks(p, Walked(FALSE, p, h))
    BY <1>7, <2>3, <2>4, WalkOn, Zenon
  <2> QED  BY <1>8, <1>9, <2>1, <2>5 DEF GroupRedone
<1>12. d.made = b.made /\ d.redo_stack = Tail(rs) /\ d.undo_stack = <<g>> \o us /\ SameBut(b, d)
  BY <1>6, <1>10 DEF SameStacks, SameBut
<1>13. OnLine(d, f, A, T, n, D[1], Before(D[1], B, Len(us)), Later(D, Len(rs)))
  BY <1>2, <1>3, <1>10, <1>a, <1>12 DEF OnLine
<1> QED
  BY <1>1, <1>4, <1>9, <1>12, <1>13

-----------------------------------------------------------------------------
(* The actions of a stack, one after the other: FlattenSeq() joins the     *)
(* groups gs.  E[i] is where group i ends, and X the elements.             *)

Parts(gs, S, E, X) ==
    /\ gs \in Seq(Seq(S))
    /\ E \in [0 .. Len(gs) -> Nat] /\ E[0] = 0
    /\ \A i \in 1 .. Len(gs) :
          /\ E[i] = E[i - 1] + Len(gs[i])
          /\ \A j \in 1 .. Len(gs[i]) : gs[i][j] = X[E[i - 1] + j]

\* The first e elements of X.
IsFirst(s, S, e, X) == s \in Seq(S) /\ Len(s) = e /\ \A k \in 1 .. e : s[k] = X[k]

LEMMA JoinFirst ==
    ASSUME NEW S, NEW s, NEW e \in Nat, NEW X, IsFirst(s, S, e, X), NEW g \in Seq(S),
           \A j \in 1 .. Len(g) : g[j] = X[e + j]
    PROVE  IsFirst(s \o g, S, e + Len(g), X)
<1>1. PICK l \in Nat : l = Len(g)
  OBVIOUS
<1>2. s \in Seq(S) /\ Len(s) = e /\ \A k \in 1 .. e : s[k] = X[k]
  BY DEF IsFirst
<1>3. PICK r : r = s \o g
  OBVIOUS
<1>4. /\ r \in Seq(S) /\ Len(r) = e + l
      /\ \A i \in 1 .. e + l : r[i] = IF i <= e THEN s[i] ELSE g[i - e]
  BY <1>1, <1>2, <1>3, ConcatProperties
<1>5. ASSUME NEW k \in 1 .. e + l PROVE r[k] = X[k]
  <2>1. CASE k <= e
    <3>1. k \in 1 .. e
      BY <2>1
    <3> QED  BY <1>2, <1>4, <2>1, <3>1
  <2>2. CASE ~(k <= e)
    <3>1. k - e \in 1 .. l /\ e + (k - e) = k
      BY <2>2
    <3> QED  BY <1>1, <1>4, <2>2, <3>1
  <2> QED  BY <2>1, <2>2
<1> QED
  BY <1>1, <1>3, <1>4, <1>5 DEF IsFirst

LEMMA FlattenIs ==
    ASSUME NEW gs, NEW S, NEW E, NEW X, Parts(gs, S, E, X)
    PROVE  IsFirst(FlattenSeq(gs), S, E[Len(gs)], X)
<1>1. PICK n \in Nat : n = Len(gs)
  BY DEF Parts
<1>2. /\ gs \in Seq(Seq(S)) /\ E \in [0 .. n -> Nat] /\ E[0] = 0
      /\ \A i \in 1 .. n : /\ gs[i] \in Seq(S)
                           /\ E[i] = E[i - 1] + Len(gs[i])
                           /\ \A j \in 1 .. Len(gs[i]) : gs[i][j] = X[E[i - 1] + j]
  BY <1>1 DEF Parts
<1>3. CASE n = 0
  <2>1. FlattenSeq(gs) = gs
    BY <1>1, <1>3 DEF FlattenSeq
  <2>2. gs = <<>>
    BY <1>1, <1>2, <1>3, EmptySeq
  <2>3. gs \in Seq(S) /\ Len(gs) = 0
    BY <2>2
  <2> QED  BY <1>1, <1>2, <1>3, <2>1, <2>3 DEF IsFirst
<1>4. CASE n # 0
  <2> DEFINE Joined(f, i) == IF i = 1 THEN gs[i] ELSE f[i - 1] \o gs[i]
             F(m, f) == f = [i \in 1 .. m |-> Joined(f, i)]
             G == {m \in Nat : \E f : F(m, f)}
  <2>1. 0 \in G
    <3> DEFINE f == [i \in 1 .. 0 |-> 0]
    <3>1. f = [i \in 1 .. 0 |-> Joined(f, i)]
      OBVIOUS
    <3> QED  BY <3>1
  <2>2. ASSUME NEW m \in Nat, m \in G PROVE m + 1 \in G
    <3>1. PICK f : F(m, f)
      BY <2>2
    <3> DEFINE h == [i \in 1 .. m + 1 |->
                        IF i <= m THEN f[i] ELSE IF m = 0 THEN gs[1] ELSE f[m] \o gs[m + 1]]
    <3>2. \A i \in 1 .. m : h[i] = f[i] /\ f[i] = Joined(f, i)
      <4>1. \A i \in 1 .. m : h[i] = f[i]
        OBVIOUS
      <4>2. \A i \in 1 .. m : f[i] = Joined(f, i)
        <5> HIDE DEF Joined
        <5> QED  BY <3>1
      <4> QED  BY <4>1, <4>2
    <3>3. h[m + 1] = IF m = 0 THEN gs[1] ELSE f[m] \o gs[m + 1]
      OBVIOUS
    <3>4. \A i \in 1 .. m + 1 : h[i] = Joined(h, i)
      <4> SUFFICES ASSUME NEW i \in 1 .. m + 1 PROVE h[i] = Joined(h, i)
        OBVIOUS
      <4>1. CASE i \in 1 .. m /\ i # 1
        <5>1. i - 1 \in 1 .. m
          BY <4>1
        <5>2. h[i - 1] = f[i - 1]
          BY <3>2, <5>1
        <5> QED  BY <3>2, <4>1, <5>2
      <4>2. CASE i \in 1 .. m /\ i = 1
        BY <3>2, <4>2
      <4>3. CASE i = m + 1 /\ m # 0
        <5>1. h[m] = f[m] /\ i - 1 = m /\ i # 1
          BY <3>2, <4>3
        <5> QED  BY <3>3, <4>3, <5>1
      <4>4. CASE i = m + 1 /\ m = 0
        BY <3>3, <4>4
      <4> QED  BY <4>1, <4>2, <4>3, <4>4
    <3>5. F(m + 1, h)
      BY <3>4
    <3>6. \E fn : F(m + 1, fn)
      BY <3>5
    <3> HIDE DEF F
    <3> QED  BY <3>6
  <2>3. n \in G
    <3> HIDE DEF G
    <3>1. 0 .. n \subseteq G
      <4>1. \A m \in 0 .. n - 1 : m \in G => m + 1 \in G
        BY <2>2
      <4> QED  BY <2>1, <4>1, Induction
    <3> QED  BY <3>1
  <2> DEFINE flatten == CHOOSE f : F(Len(gs), f)
  <2>4. F(Len(gs), flatten)
    <3>1. \E f : F(Len(gs), f)
      BY <1>1, <2>3
    <3> QED  BY <3>1, Zenon
  <2>5. FlattenSeq(gs) = flatten[Len(gs)]
    <3>1. Len(gs) # 0
      BY <1>1, <1>4
    <3> QED  BY <3>1, Zenon DEF FlattenSeq
  <2>6. \A i \in 1 .. n : flatten[i] = Joined(flatten, i)
    BY <1>1, <2>4, Zenon
  <2> DEFINE H == {i \in 0 .. n : i = 0 \/ IsFirst(flatten[i], S, E[i], X)}
  <2>7. 0 \in H
    OBVIOUS
  <2>8. ASSUME NEW i \in 0 .. n - 1, i \in H PROVE i + 1 \in H
    <3>1. /\ i + 1 \in 1 .. n /\ (i + 1) - 1 = i /\ (i + 1 = 1 <=> i = 0)
          /\ i \in 0 .. n /\ i + 1 \in 0 .. n
      OBVIOUS
    <3>2. /\ gs[i + 1] \in Seq(S) /\ E[i + 1] = E[i] + Len(gs[i + 1]) /\ E[i] \in Nat
          /\ \A j \in 1 .. Len(gs[i + 1]) : gs[i + 1][j] = X[E[i] + j]
      BY <1>2, <3>1
    <3>3. flatten[i + 1] = IF i = 0 THEN gs[i + 1] ELSE flatten[i] \o gs[i + 1]
      <4> HIDE DEF flatten
      <4>1. flatten[i + 1] = Joined(flatten, i + 1)
        <5> HIDE DEF Joined
        <5> QED  BY <2>6, <3>1
      <4>2. CASE i = 0
        BY <3>1, <4>1, <4>2
      <4>3. CASE i # 0
        BY <3>1, <4>1, <4>3
      <4> QED  BY <4>2, <4>3
    <3>4. CASE i = 0
      <4>1. PICK g : g = gs[i + 1]
        OBVIOUS
      <4>2. PICK l \in Nat : l = Len(g)
        BY <3>2, <4>1
      <4>3. E[i] = 0 /\ E[i + 1] = l /\ \A j \in 1 .. l : 0 + j = j
        BY <1>2, <3>2, <3>4, <4>1, <4>2
      <4>4. \A j \in 1 .. l : g[j] = X[j]
        BY <3>2, <4>1, <4>2, <4>3
      <4>5. IsFirst(g, S, E[i + 1], X)
        BY <3>2, <4>1, <4>2, <4>3, <4>4 DEF IsFirst
      <4> QED  BY <3>1, <3>3, <3>4, <4>1, <4>5
    <3>5. CASE i # 0
      <4>1. IsFirst(flatten[i], S, E[i], X)
        BY <2>8, <3>5
      <4> HIDE DEF flatten
      <4>2. IsFirst(flatten[i] \o gs[i + 1], S, E[i] + Len(gs[i + 1]), X)
        BY <3>2, <4>1, JoinFirst, Zenon
      <4> QED  BY <3>1, <3>2, <3>3, <3>5, <4>2
    <3> QED  BY <3>4, <3>5
  <2>9. 0 .. n \subseteq H
    <3>1. \A i \in 0 .. n - 1 : i \in H => i + 1 \in H
      BY <2>8
    <3> HIDE DEF H
    <3> QED  BY <2>7, <3>1, Induction
  <2> HIDE DEF flatten
  <2>10. IsFirst(flatten[n], S, E[n], X)
    <3>1. n \in 0 .. n
      OBVIOUS
    <3> QED  BY <1>4, <2>9, <3>1
  <2> QED  BY <1>1, <2>5, <2>10
<1> QED
  BY <1>3, <1>4

-----------------------------------------------------------------------------
(* The line after an edit. *)

\* Groups that can be undone begin on the line.
UndoLimit(us, c, B) == \A i \in 0 .. Len(us) : B[i] \in 0 .. c

LEMMA UndoWithin ==
    ASSUME NEW us, NEW A, NEW c, NEW B, UndoIs(us, A, c, B)
    PROVE  c \in Nat /\ UndoLimit(us, c, B)
<1>1. PICK k \in Nat : k = Len(us)
  BY DEF UndoIs
<1>2. /\ B \in [0 .. k -> Nat] /\ B[0] = c
      /\ \A i \in 1 .. k : B[i - 1] = B[i] + Len(us[i]) /\ us[i] \in Group
  BY <1>1 DEF UndoIs
<1>3. ASSUME NEW i \in 0 .. k - 1 PROVE B[i + 1] <= B[i]
  <2>1. i + 1 \in 1 .. k /\ (i + 1) - 1 = i /\ i \in 0 .. k /\ i + 1 \in 0 .. k
    BY <1>1
  <2>2. B[i] = B[i + 1] + Len(us[i + 1]) /\ Len(us[i + 1]) \in Nat
    BY <1>2, <2>1, GroupLength
  <2> QED  BY <1>2, <2>1, <2>2
<1> DEFINE G == {e \in 0 .. k : B[e] <= c}
<1>4. 0 \in G
  BY <1>2
<1>5. \A e \in 0 .. k - 1 : e \in G => e + 1 \in G
  <2> SUFFICES ASSUME NEW e \in 0 .. k - 1, e \in G PROVE e + 1 \in G
    OBVIOUS
  <2>1. e + 1 \in 0 .. k /\ e \in 0 .. k
    BY <1>1
  <2>2. B[e] \in Nat /\ B[e + 1] \in Nat /\ c \in Nat /\ B[e + 1] <= B[e] /\ B[e] <= c
    BY <1>2, <1>3, <2>1
  <2> QED  BY <2>1, <2>2
<1>6. 0 .. k \subseteq G
  <2> HIDE DEF G
  <2> QED  BY <1>4, <1>5, Induction
<1>7. c \in Nat /\ \A i \in 0 .. k : B[i] \in Nat
  BY <1>2
<1> QED
  BY <1>1, <1>6, <1>7 DEF UndoLimit

\* Only what is before the place counts.
LEMMA UndoSame ==
    ASSUME NEW us, NEW A, NEW c, NEW B, UndoIs(us, A, c, B),
           NEW A2, \A i \in 1 .. c : A2[i] = A[i]
    PROVE  UndoIs(us, A2, c, B)
<1>1. PICK k \in Nat : k = Len(us)
  BY DEF UndoIs
<1>2. c \in Nat /\ \A i \in 0 .. k : B[i] \in 0 .. c
  BY <1>1, UndoWithin, Zenon DEF UndoLimit
<1>a. \A i \in 1 .. k : B[i - 1] = B[i] + Len(us[i]) /\ us[i] \in Group
  BY <1>1 DEF UndoIs
<1>3. ASSUME NEW i \in 1 .. k, NEW j \in 1 .. Len(us[i])
      PROVE  A2[B[i - 1] - j + 1] = A[B[i - 1] - j + 1]
  <2>1. B[i - 1] = B[i] + Len(us[i]) /\ us[i] \in Group
    BY <1>a
  <2>2. i - 1 \in 0 .. k /\ i \in 0 .. k /\ Len(us[i]) \in Nat
    BY <1>1, <2>1, GroupLength
  <2>3. B[i - 1] \in 0 .. c /\ B[i] \in 0 .. c
    BY <1>2, <2>2
  <2>4. B[i - 1] - j + 1 \in 1 .. c
    BY <2>1, <2>2, <2>3, <1>2
  <2> QED  BY <2>4
<1>4. \A i \in 1 .. k : /\ B[i - 1] = B[i] + Len(us[i])
                        /\ \A j \in 1 .. Len(us[i]) : us[i][j] = A2[B[i - 1] - j + 1]
  BY <1>1, <1>3 DEF UndoIs
<1> QED
  BY <1>1, <1>4 DEF UndoIs

\* The latest action is at the end of the line, and the group it is in can be given
\* another one in its place.
Top(us, A2, c, B) ==
    LET g == <<A2[c]>> \o Tail(Head(us)) IN
    /\ c \in Nat /\ c >= 1 /\ B[1] \in 0 .. c - 1
    /\ g \in Group /\ c = B[1] + Len(g)
    /\ \A j \in 1 .. Len(g) : g[j] = A2[c - j + 1]
    /\ UndoIs(Tail(us), A2, B[1], Later(B, Len(us)))

LEMMA TopIs ==
    ASSUME NEW us, NEW A, NEW c, NEW B, UndoIs(us, A, c, B), us # <<>>,
           NEW A2, A2[c] \in Action, \A i \in 1 .. c - 1 : A2[i] = A[i]
    PROVE  Head(Head(us)) = A[c] /\ Top(us, A2, c, B)
<1>1. PICK h, ts, L : h = Head(us) /\ ts = Tail(us) /\ L = Later(B, Len(us))
  OBVIOUS
<1>2. /\ c \in Nat /\ B[1] \in Nat /\ h \in Group
      /\ c = B[1] + Len(h)
      /\ \A j \in 1 .. Len(h) : h[j] = A[c - j + 1]
      /\ UndoIs(ts, A, B[1], L)
  BY <1>1, PopUndo
<1>3. PICK l \in Nat : l = Len(h) /\ l >= 1
  BY <1>2, GroupLength
<1>4. h \in Seq(Action) /\ h # <<>>
  BY <1>2 DEF Group
<1>5. /\ Head(h) = h[1] /\ Tail(h) \in Seq(Action) /\ Len(Tail(h)) = l - 1
      /\ \A i \in 1 .. l - 1 : Tail(h)[i] = h[i + 1]
  BY <1>3, <1>4, Pop
<1>6. c \in 1 .. c /\ c >= 1 /\ B[1] \in 0 .. c - 1 /\ 1 \in 1 .. l /\ c - 1 + 1 = c
  BY <1>2, <1>3
<1>7. Head(h) = A[c]
  BY <1>2, <1>3, <1>5, <1>6
<1>8. PICK g : g = <<A2[c]>> \o Tail(h)
  OBVIOUS
<1>9. /\ g \in Seq(Action) /\ g # <<>> /\ Len(g) = l /\ g[1] = A2[c]
      /\ \A i \in 1 .. l - 1 : g[i + 1] = Tail(h)[i]
  <2>1. /\ g \in Seq(Action) /\ g # <<>> /\ Len(g) = (l - 1) + 1 /\ g[1] = A2[c]
        /\ \A i \in 1 .. l - 1 : g[i + 1] = Tail(h)[i]
    BY <1>5, <1>8, Push
  <2>2. (l - 1) + 1 = l
    BY <1>3
  <2> QED  BY <2>1, <2>2
<1>10. ASSUME NEW j \in 1 .. l PROVE g[j] = A2[c - j + 1]
  <2>1. CASE j = 1
    BY <1>6, <1>9, <2>1
  <2>2. CASE j # 1
    <3>1. PICK i \in 1 .. l - 1 : j = i + 1
      <4>1. j - 1 \in 1 .. l - 1 /\ j = (j - 1) + 1
        BY <2>2
      <4> QED  BY <4>1
    <3>2. g[j] = h[j]
      BY <1>5, <1>9, <3>1
    <3>4. h[j] = A[c - j + 1]
      BY <1>2, <1>3
    <3>3. c - j + 1 \in 1 .. c - 1
      <4>1. PICK e \in Nat : c = e + l
        BY <1>2, <1>3
      <4> QED  BY <2>2, <4>1
    <3> QED  BY <3>2, <3>3, <3>4
  <2> QED  BY <2>1, <2>2
<1>11. UndoIs(ts, A2, B[1], L)
  <2>1. \A i \in 1 .. B[1] : A2[i] = A[i]
    BY <1>2, <1>6
  <2> QED  BY <1>2, <2>1, UndoSame, Zenon
<1> QED
  BY <1>1, <1>2, <1>3, <1>6, <1>7, <1>8, <1>9, <1>10, <1>11 DEF Top, Group

\* The lines A and T with another action and text at the end, ...
AtEnd(A, T, A2, T2, n, a, t) ==
    /\ Line(A2, T2, n) /\ A2[n] = a /\ T2[n] = t
    /\ \A i \in 1 .. n - 1 : A2[i] = A[i]
    /\ \A i \in 0 .. n - 1 : T2[i] = T[i]

LEMMA Replaced ==
    ASSUME NEW A, NEW T, NEW n, Line(A, T, n), n >= 1, NEW a \in Action, NEW t \in Text,
           a.id = A[n].id, CanDo(T[n - 1], a), t = Applied(T[n - 1], a)
    PROVE  \E A2, T2 : AtEnd(A, T, A2, T2, n, a, t)
<1>1. /\ n \in Nat /\ A \in [1 .. n -> Action] /\ T \in [0 .. n -> Text]
      /\ \A i \in 1 .. n : CanDo(T[i - 1], A[i]) /\ T[i] = Applied(T[i - 1], A[i])
      /\ \A i, j \in 1 .. n : A[i].id = A[j].id => i = j
  BY DEF Line
<1>2. PICK A2, T2 : A2 = [A EXCEPT ![n] = a] /\ T2 = [T EXCEPT ![n] = t]
  OBVIOUS
<1>3. n \in 1 .. n /\ n \in 0 .. n /\ \A i \in 1 .. n : i # n => i \in 1 .. n - 1
  BY <1>1
<1>4. /\ A2 \in [1 .. n -> Action] /\ T2 \in [0 .. n -> Text]
      /\ A2[n] = a /\ T2[n] = t
      /\ \A i \in 1 .. n - 1 : A2[i] = A[i] /\ A2[i].id = A[i].id
      /\ \A i \in 0 .. n - 1 : T2[i] = T[i]
  BY <1>1, <1>2, <1>3
<1>5. \A i \in 1 .. n : A2[i].id = A[i].id
  BY <1>3, <1>4
<1>6. ASSUME NEW i \in 1 .. n
      PROVE  CanDo(T2[i - 1], A2[i]) /\ T2[i] = Applied(T2[i - 1], A2[i])
  <2>1. i - 1 \in 0 .. n - 1 /\ (i # n => i \in 0 .. n - 1)
    BY <1>1
  <2>2. T2[i - 1] = T[i - 1]
    BY <1>4, <2>1
  <2>3. CASE i = n
    BY <1>4, <2>2, <2>3
  <2>4. CASE i # n
    <3>1. A2[i] = A[i] /\ T2[i] = T[i]
      BY <1>3, <1>4, <2>1, <2>4
    <3> QED  BY <1>1, <2>2, <3>1
  <2> QED  BY <2>3, <2>4
<1>7. Line(A2, T2, n)
  BY <1>1, <1>4, <1>5, <1>6 DEF Line
<1> QED
  BY <1>4, <1>7, ZenonT(90) DEF AtEnd

\* ... with one more at the end, ...
LEMMA Appended ==
    ASSUME NEW A, NEW T, NEW n, Line(A, T, n), NEW a \in Action, NEW t \in Text,
           \A i \in 1 .. n : A[i].id # a.id, CanDo(T[n], a), t = Applied(T[n], a)
    PROVE  \E A2, T2 : AtEnd(A, T, A2, T2, n + 1, a, t)
<1>1. /\ n \in Nat /\ A \in [1 .. n -> Action] /\ T \in [0 .. n -> Text]
      /\ \A i \in 1 .. n : CanDo(T[i - 1], A[i]) /\ T[i] = Applied(T[i - 1], A[i])
      /\ \A i, j \in 1 .. n : A[i].id = A[j].id => i = j
  BY DEF Line
<1>2. PICK A2, T2 : /\ A2 = [i \in 1 .. n + 1 |-> IF i = n + 1 THEN a ELSE A[i]]
                    /\ T2 = [i \in 0 .. n + 1 |-> IF i = n + 1 THEN t ELSE T[i]]
  OBVIOUS
<1>3. /\ n + 1 \in Nat /\ n + 1 \in 1 .. n + 1 /\ n + 1 \in 0 .. n + 1 /\ (n + 1) - 1 = n
      /\ \A i \in 1 .. n : i # n + 1 /\ i \in 1 .. n + 1
      /\ \A i \in 0 .. n : i # n + 1 /\ i \in 0 .. n + 1
      /\ \A i \in 1 .. n + 1 : i # n + 1 => i \in 1 .. n
      /\ \A i \in 0 .. n + 1 : i # n + 1 => i \in 0 .. n
  BY <1>1
<1>4. /\ A2 \in [1 .. n + 1 -> Action] /\ T2 \in [0 .. n + 1 -> Text]
      /\ A2[n + 1] = a /\ T2[n + 1] = t
      /\ \A i \in 1 .. n : A2[i] = A[i]
      /\ \A i \in 0 .. n : T2[i] = T[i]
  BY <1>1, <1>2, <1>3
<1>5. \A i, j \in 1 .. n + 1 : A2[i].id = A2[j].id => i = j
  BY <1>1, <1>3, <1>4
<1>6. ASSUME NEW i \in 1 .. n + 1
      PROVE  CanDo(T2[i - 1], A2[i]) /\ T2[i] = Applied(T2[i - 1], A2[i])
  <2>1. i - 1 \in 0 .. n /\ (i # n + 1 => i \in 0 .. n) /\ (i = n + 1 => i - 1 = n)
    BY <1>1
  <2>2. T2[i - 1] = T[i - 1]
    BY <1>4, <2>1
  <2>3. CASE i = n + 1
    BY <1>4, <2>1, <2>2, <2>3
  <2>4. CASE i # n + 1
    <3>1. i \in 1 .. n
      BY <1>3, <2>4
    <3>2. A2[i] = A[i] /\ T2[i] = T[i]
      BY <1>4, <2>1, <2>4, <3>1
    <3> QED  BY <1>1, <2>2, <3>1, <3>2
  <2> QED  BY <2>3, <2>4
<1>7. Line(A2, T2, n + 1)
  BY <1>3, <1>4, <1>5, <1>6 DEF Line
<1> QED
  BY <1>3, <1>4, <1>7 DEF AtEnd

\* ... and up to the place c only.
LEMMA CutOff ==
    ASSUME NEW A, NEW T, NEW n, Line(A, T, n), NEW c \in 0 .. n
    PROVE  \E A2, T2 : /\ Line(A2, T2, c)
                       /\ \A i \in 1 .. c : A2[i] = A[i]
                       /\ \A i \in 0 .. c : T2[i] = T[i]
<1>1. /\ n \in Nat /\ A \in [1 .. n -> Action] /\ T \in [0 .. n -> Text]
      /\ \A i \in 1 .. n : CanDo(T[i - 1], A[i]) /\ T[i] = Applied(T[i - 1], A[i])
      /\ \A i, j \in 1 .. n : A[i].id = A[j].id => i = j
  BY DEF Line
<1>2. PICK A2, T2 : A2 = [i \in 1 .. c |-> A[i]] /\ T2 = [i \in 0 .. c |-> T[i]]
  OBVIOUS
<1>3. c \in Nat /\ 1 .. c \subseteq 1 .. n /\ 0 .. c \subseteq 0 .. n
      /\ \A i \in 1 .. c : i - 1 \in 0 .. c /\ i \in 0 .. c
  BY <1>1
<1>4. /\ A2 \in [1 .. c -> Action] /\ T2 \in [0 .. c -> Text]
      /\ \A i \in 1 .. c : A2[i] = A[i]
      /\ \A i \in 0 .. c : T2[i] = T[i]
  BY <1>1, <1>2, <1>3
<1>5. \A i, j \in 1 .. c : A2[i].id = A2[j].id => i = j
  BY <1>1, <1>3, <1>4
<1>6. \A i \in 1 .. c : CanDo(T2[i - 1], A2[i]) /\ T2[i] = Applied(T2[i - 1], A2[i])
  <2> SUFFICES ASSUME NEW i \in 1 .. c
               PROVE  CanDo(T2[i - 1], A2[i]) /\ T2[i] = Applied(T2[i - 1], A2[i])
    OBVIOUS
  <2>1. A2[i] = A[i] /\ T2[i] = T[i] /\ T2[i - 1] = T[i - 1] /\ i \in 1 .. n
    BY <1>3, <1>4
  <2> QED  BY <1>1, <2>1
<1>7. Line(A2, T2, c)
  BY <1>3, <1>4, <1>5, <1>6 DEF Line
<1> QED
  BY <1>4, <1>7

\* An action that can be done to a text of bounded length is one of the model's, when
\* what it leads to is bounded too.
LEMMA IsBounded ==
    ASSUME NEW t \in Text, NEW m \in AnyAction, CanDo(t, m), Applied(t, m) \in Text,
           m.id \in 1 .. MaxMade + 2, m.text # <<>>
    PROVE  m \in Action
<1>1. PICK s \in String : s = m.text
  BY DEF AnyAction
<1>2. PICK x \in String, y \in String, u \in Text : u = (x \o s) \o y /\ m.pos = Len(x)
  <2>1. CASE m.type = "insert"
    <3>1. PICK r \in String : r = t /\ m \in AnyAction /\ CanDo(r, m)
      BY DEF Text, String
    <3>2. CanUndo(Applied(r, m), m)
      BY <3>1, UndoGoesBack, Zenon
    <3>3. \E x, y \in String : Applied(r, m) = (x \o m.text) \o y /\ m.pos = Len(x)
      BY <2>1, <3>2, Zenon DEF CanUndo
    <3> QED  BY <1>1, <3>1, <3>3
  <2>2. CASE ~ (m.type = "insert")
    <3>1. \E x, y \in String : t = (x \o m.text) \o y /\ m.pos = Len(x)
      BY <2>2, Zenon DEF CanDo
    <3> QED  BY <1>1, <3>1
  <2> QED  BY <2>1, <2>2
<1>3. Len(u) <= MaxLength /\ MaxLength \in Nat
  BY UndoAssumption DEF Text
<1>4. PICK w \in String : w = x \o s /\ Len(w) = Len(x) + Len(s)
  BY JoinIs
<1>5. Len(w \o y) = Len(w) + Len(y) /\ Len(y) \in Nat
  BY JoinIs
<1>6. Len(x) \in Nat /\ Len(s) \in Nat
  BY JoinIs
<1>7. Len(x) + Len(s) + Len(y) <= MaxLength
  BY <1>2, <1>3, <1>4, <1>5
<1>8. Len(s) <= MaxLength /\ m.pos \in 0 .. MaxLength
  BY <1>2, <1>3, <1>5, <1>6, <1>7
<1>9. m.text \in Text \ {<<>>}
  BY <1>1, <1>8 DEF Text, String
<1> QED
  BY <1>8, <1>9 DEF Action, AnyAction

LEMMA MergedHas ==
    ASSUME NEW last \in Action, NEW a \in Action
    PROVE  /\ Merged(last, a).id = last.id /\ Merged(last, a).text # <<>>
           /\ Refused(last, a) \in Action /\ Refused(last, a).id = last.id
<1>1. PICK s \in String, r \in String : s = last.text /\ r = a.text /\ s # <<>> /\ r # <<>>
  BY DEF Action, Text, String
<1>2. s \o r # <<>> /\ r \o s # <<>>
  <2>1. Len(s) \in Nat /\ Len(r) \in Nat /\ Len(s) # 0 /\ Len(r) # 0
    BY <1>1, EmptySeq DEF String
  <2>2. Len(s \o r) = Len(s) + Len(r) /\ Len(r \o s) = Len(r) + Len(s)
    BY JoinIs, Zenon
  <2>3. Len(s \o r) # 0 /\ Len(r \o s) # 0
    BY <2>1, <2>2
  <2>4. PICK v, w : v = s \o r /\ w = r \o s
    OBVIOUS
  <2> QED  BY <2>3, <2>4
<1>3. Merged(last, a).id = last.id /\ Merged(last, a).text # <<>>
  <2>1. CASE a.type = "delete" /\ DeletedBefore(last, a)
    BY <1>1, <1>2, <2>1 DEF Merged, Action
  <2>2. CASE ~(a.type = "delete" /\ DeletedBefore(last, a))
    BY <1>1, <1>2, <2>2 DEF Merged, Action
  <2> QED  BY <2>1, <2>2
<1>4. Refused(last, a) \in Action /\ Refused(last, a).id = last.id
  BY DEF Refused, Action
<1> QED
  BY <1>3, <1>4

\* An action that refuses another can be done where it could be.
LEMMA RefusedDoes ==
    ASSUME NEW last \in Action, NEW a, NEW t
    PROVE  /\ Applied(t, Refused(last, a)) = Applied(t, last)
           /\ CanDo(t, Refused(last, a)) = CanDo(t, last)
<1>1. PICK q : q = Refused(last, a)
  OBVIOUS
<1>2. q.type = last.type /\ q.pos = last.pos /\ q.text = last.text
  BY <1>1 DEF Refused, Action
<1>3. Applied(t, q) = Applied(t, last)
  BY <1>2, Zenon DEF Applied
<1>4. CanDo(t, q) = CanDo(t, last)
  BY <1>2, Zenon DEF CanDo
<1> QED
  BY <1>1, <1>3, <1>4

\* The order of undo is that of the line backwards ...
LEMMA UndoOrderIs ==
    ASSUME NEW us, NEW A, NEW c, NEW B, UndoIs(us, A, c, B)
    PROVE  IsFirst(FlattenSeq(us), Action, c, [k \in 1 .. c |-> A[c - k + 1]])
<1>1. PICK k \in Nat : k = Len(us)
  BY DEF UndoIs
<1>2. /\ us \in Seq(Group)
      /\ B \in [0 .. k -> Nat] /\ B[0] = c /\ B[k] = 0
      /\ \A i \in 1 .. k : /\ B[i - 1] = B[i] + Len(us[i])
                           /\ \A j \in 1 .. Len(us[i]) : us[i][j] = A[B[i - 1] - j + 1]
  BY <1>1 DEF UndoIs
<1>3. c \in Nat /\ \A i \in 0 .. k : B[i] \in 0 .. c
  BY <1>1, UndoWithin, Zenon DEF UndoLimit
<1>4. PICK E, X : E = [i \in 0 .. k |-> c - B[i]] /\ X = [j \in 1 .. c |-> A[c - j + 1]]
  OBVIOUS
<1>5. E \in [0 .. k -> Nat]
  <2>1. \A i \in 0 .. k : c - B[i] \in Nat
    BY <1>3
  <2> QED  BY <1>4, <2>1
<1>6. E[0] = 0 /\ E[k] = c
  <2>1. 0 \in 0 .. k /\ k \in 0 .. k /\ c - c = 0 /\ c - 0 = c
    BY <1>3
  <2> QED  BY <1>2, <1>4, <2>1
<1>7. ASSUME NEW i \in 1 .. k
      PROVE  /\ E[i] = E[i - 1] + Len(us[i])
             /\ \A j \in 1 .. Len(us[i]) : us[i][j] = X[E[i - 1] + j]
  <2>a. PICK g \in Group : g = us[i]
    BY <1>1, <1>2
  <2>b. PICK l \in Nat : l = Len(g)
    BY GroupLength
  <2>1. g = us[i] /\ l = Len(g)
    BY <2>a, <2>b
  <2>2. i - 1 \in 0 .. k /\ i \in 0 .. k
    BY <1>1
  <2>3. PICK x \in 0 .. c, y \in 0 .. c : x = B[i - 1] /\ y = B[i] /\ x = y + l
    BY <1>2, <1>3, <2>1, <2>2
  <2>4. E[i - 1] = c - x /\ E[i] = c - y
    BY <1>4, <2>2, <2>3
  <2>5. E[i] = E[i - 1] + l
    BY <1>3, <2>3, <2>4
  <2>6. ASSUME NEW j \in 1 .. l PROVE g[j] = X[E[i - 1] + j]
    <3>1. PICK e \in 1 .. c : e = (c - x) + j /\ c - e + 1 = x - j + 1
      <4>1. (c - x) + j \in 1 .. c /\ c - ((c - x) + j) + 1 = x - j + 1
        BY <1>3, <2>3
      <4> QED  BY <4>1
    <3>2. X[e] = A[x - j + 1]
      BY <1>4, <3>1
    <3>3. g[j] = A[x - j + 1]
      BY <1>2, <2>1, <2>3
    <3> QED  BY <2>4, <3>1, <3>2, <3>3
  <2> QED  BY <2>1, <2>5, <2>6
<1>8. us \in Seq(Seq(Action))
  <2>1. \A i \in 1 .. k : us[i] \in Seq(Action)
    BY <1>1, <1>2, GroupLength
  <2> QED  BY <1>1, <1>2, <2>1
<1>9. Parts(us, Action, E, X)
  BY <1>1, <1>5, <1>6, <1>7, <1>8 DEF Parts
<1>10. IsFirst(FlattenSeq(us), Action, E[Len(us)], X)
  BY <1>9, FlattenIs, Zenon
<1> QED
  BY <1>1, <1>4, <1>6, <1>10

\* ... and that of redo the one forwards.
LEMMA RedoOrderIs ==
    ASSUME NEW b, NEW A, NEW c, NEW n, NEW D, RedoIs(b.redo_stack, A, c, n, D)
    PROVE  IsFirst(RedoOrder(b), Action, n - c, [k \in 1 .. n - c |-> A[c + k]])
<1>0. PICK rs : rs = b.redo_stack
  OBVIOUS
<1>1. PICK k \in Nat : k = Len(rs) /\ rs = b.redo_stack
  BY <1>0 DEF RedoIs
<1>2. /\ rs \in Seq(Group)
      /\ D \in [0 .. k -> Nat] /\ D[0] = c /\ D[k] = n
      /\ \A i \in 1 .. k : /\ D[i] = D[i - 1] + Len(rs[i])
                           /\ \A j \in 1 .. Len(rs[i]) : rs[i][j] = A[D[i] - j + 1]
  BY <1>1 DEF RedoIs
<1>3. c \in Nat /\ n \in Nat /\ c <= n /\ \A i \in 0 .. k : D[i] \in c .. n
  <2>1. RedoIs(rs, A, c, n, D)
    BY <1>1
  <2> QED  BY <1>1, <2>1, RedoWithin, Zenon DEF RedoLimit
<1>4. PICK E, X : E = [i \in 0 .. k |-> D[i] - c] /\ X = [j \in 1 .. n - c |-> A[c + j]]
  OBVIOUS
<1>5. E \in [0 .. k -> Nat]
  <2>1. \A i \in 0 .. k : D[i] - c \in Nat
    BY <1>3
  <2> QED  BY <1>4, <2>1
<1>6. E[0] = 0 /\ E[k] = n - c
  <2>1. 0 \in 0 .. k /\ k \in 0 .. k /\ c - c = 0
    BY <1>3
  <2> QED  BY <1>2, <1>4, <2>1
<1>a. PICK gs : gs = RedoGroups(b)
  OBVIOUS
<1>b. /\ gs \in Seq(Seq(Action)) /\ Len(gs) = k
      /\ \A i \in 1 .. k : /\ gs[i] = Reverse(rs[i])
                           /\ Len(gs[i]) = Len(rs[i]) /\ Len(rs[i]) \in Nat
                           /\ \A j \in 1 .. Len(rs[i]) : gs[i][j] = rs[i][Len(rs[i]) - j + 1]
  <2>1. DOMAIN rs = 1 .. k
    BY <1>1, <1>2
  <2>2. gs = [i \in 1 .. k |-> Reverse(rs[i])]
    BY <1>1, <1>a, <2>1 DEF RedoGroups
  <2>3. ASSUME NEW i \in 1 .. k
        PROVE  /\ gs[i] = Reverse(rs[i]) /\ gs[i] \in Seq(Action)
               /\ Len(gs[i]) = Len(rs[i]) /\ Len(rs[i]) \in Nat
               /\ \A j \in 1 .. Len(rs[i]) : gs[i][j] = rs[i][Len(rs[i]) - j + 1]
    <3>1. rs[i] \in Group
      BY <1>1, <1>2
    <3>a. PICK g \in Group : g = rs[i]
      BY <3>1
    <3>b. g \in Seq(Action) /\ Len(g) \in Nat
      BY GroupLength
    <3>2. PICK l \in Nat : l = Len(g)
      BY <3>b
    <3>3. /\ Reverse(g) \in Seq(Action) /\ Len(Reverse(g)) = l
          /\ \A j \in 1 .. l : Reverse(g)[j] = g[l - j + 1]
      BY <3>2, <3>b, ReverseIs
    <3> QED  BY <2>2, <3>a, <3>2, <3>3
  <2>4. gs \in [1 .. k -> Seq(Action)]
    BY <2>2, <2>3
  <2> QED  BY <2>3, <2>4
<1>7. ASSUME NEW i \in 1 .. k
      PROVE  /\ E[i] = E[i - 1] + Len(gs[i])
             /\ \A j \in 1 .. Len(gs[i]) : gs[i][j] = X[E[i - 1] + j]
  <2>1. PICK l \in Nat : l = Len(rs[i]) /\ Len(gs[i]) = l
    BY <1>b
  <2>2. i - 1 \in 0 .. k /\ i \in 0 .. k
    BY <1>1
  <2>3. PICK x \in c .. n, y \in c .. n : x = D[i - 1] /\ y = D[i] /\ y = x + l
    BY <1>2, <1>3, <2>1, <2>2
  <2>4. E[i - 1] = x - c /\ E[i] = y - c
    BY <1>4, <2>2, <2>3
  <2>5. E[i] = E[i - 1] + l
    BY <1>3, <2>3, <2>4
  <2>6. ASSUME NEW j \in 1 .. l PROVE gs[i][j] = X[E[i - 1] + j]
    <3>1. PICK e \in 1 .. n - c : e = (x - c) + j /\ c + e = x + j
      <4>1. (x - c) + j \in 1 .. n - c /\ c + ((x - c) + j) = x + j
        BY <1>3, <2>3
      <4> QED  BY <4>1
    <3>2. X[e] = A[x + j]
      BY <1>4, <3>1
    <3>3. PICK h \in 1 .. l : h = l - j + 1 /\ y - h + 1 = x + j
      <4>1. l - j + 1 \in 1 .. l /\ y - (l - j + 1) + 1 = x + j
        BY <1>3, <2>3
      <4> QED  BY <4>1
    <3>4. gs[i][j] = rs[i][h]
      BY <1>b, <2>1, <3>3
    <3>5. rs[i][h] = A[x + j]
      <4>1. \A q \in 1 .. l : rs[i][q] = A[y - q + 1]
        BY <1>2, <2>1, <2>3
      <4> QED  BY <3>3, <4>1
    <3> QED  BY <2>4, <3>1, <3>2, <3>4, <3>5
  <2> QED  BY <2>1, <2>5, <2>6
<1>9. Parts(gs, Action, E, X)
  BY <1>5, <1>6, <1>7, <1>b DEF Parts
<1>10. IsFirst(FlattenSeq(gs), Action, E[Len(gs)], X)
  BY <1>9, FlattenIs, Zenon
<1> QED
  BY <1>4, <1>6, <1>a, <1>b, <1>10 DEF RedoOrder

-----------------------------------------------------------------------------
(* What an edit leaves of the line, and what it adds to it. *)

\* The line up to the place of the buffer, when m is to be the modifying action.
Left(b, f, A1, T1, T, c, m) ==
    /\ Line(A1, T1, c)
    /\ \A i \in 0 .. c : T1[i] = T[i]
    /\ \A i \in 1 .. c : A1[i].id <= b.made
    /\ b.modified /\ m # None => \E k \in 1 .. c : A1[k].id = m /\ T1[k - 1] = f
    /\ ~ b.modified => m = b.made + 1 /\ T1[c] = f

LEMMA EditLeaves ==
    ASSUME NEW b, NEW f, NEW A, NEW T, NEW n, NEW c, NEW B, NEW D,
           OnLine(b, f, A, T, n, c, B, D), NEW a, a.id = b.made + 1
    PROVE  \E A1, T1 : /\ Left(b, f, A1, T1, T, c, Forgotten(Modifier(b, a), b))
                       /\ UndoIs(b.undo_stack, A1, c, B)
<1>1. /\ Line(A, T, n) /\ c \in 0 .. n /\ n \in Nat
      /\ b \in Buffer /\ b.text = T[c] /\ Marked(b, f, A, T, n, c)
      /\ \A i \in 1 .. n : A[i].id <= b.made
      /\ A \in [1 .. n -> Action]
  BY DEF OnLine, At, Line
<1>2. PICK A1, T1 : /\ Line(A1, T1, c)
                    /\ \A i \in 1 .. c : A1[i] = A[i]
                    /\ \A i \in 0 .. c : T1[i] = T[i]
  <2>1. Line(A, T, n) /\ c \in 0 .. n
    BY <1>1
  <2> QED  BY <2>1, CutOff
<1>3. UndoIs(b.undo_stack, A1, c, B)
  BY <1>2, UndoSame, Zenon DEF OnLine
<1>4. PICK m, p : p = Modifier(b, a) /\ m = Forgotten(p, b)
  OBVIOUS
<1>5. c \in Nat /\ 1 .. c \subseteq 1 .. n
  BY <1>1
<1>6. IsFirst(RedoOrder(b), Action, n - c, [k \in 1 .. n - c |-> A[c + k]])
  BY RedoOrderIs, Zenon DEF OnLine
<1>a. n \in Nat /\ c \in 0 .. n
  BY <1>1
<1>b. PICK l \in Nat : l = n - c
  BY <1>a
<1>c. PICK r : r = RedoOrder(b)
  OBVIOUS
<1>7. r = RedoOrder(b) /\ l = n - c
  BY <1>b, <1>c
<1>8. r \in Seq(Action) /\ Len(r) = l /\ \A k \in 1 .. l : r[k] = A[c + k]
  BY <1>6, <1>7 DEF IsFirst
<1>9. Range(RedoOrder(b)) = {A[c + k] : k \in 1 .. l}
  <2>1. DOMAIN r = 1 .. l
    BY <1>8
  <2>2. Range(r) = {r[k] : k \in 1 .. l}
    BY <2>1 DEF Range
  <2> QED  BY <1>7, <1>8, <2>2
<1>10. CASE b.modified
  <2>1. p = b.modifying_action
    BY <1>4, <1>10 DEF Modifier
  <2>2. ASSUME m # None PROVE \E k \in 1 .. c : A1[k].id = m /\ T1[k - 1] = f
    <3>1. m = p /\ ~ \E e \in Range(RedoOrder(b)) : e.id = p
      BY <1>4, <2>2 DEF Forgotten
    <3>2. PICK k \in 1 .. n : A[k].id = m /\ (k <= c => T[k - 1] = f)
      BY <1>1, <2>1, <2>2, <3>1 DEF Marked
    <3>3. k <= c
      <4>1. SUFFICES ASSUME ~(k <= c) PROVE FALSE
        OBVIOUS
      <4>2. k - c \in 1 .. l /\ c + (k - c) = k
        BY <1>a, <1>b, <4>1
      <4>3. A[k] \in Range(RedoOrder(b))
        BY <1>9, <4>2
      <4> QED  BY <3>1, <3>2, <4>3
    <3>4. k \in 1 .. c /\ k - 1 \in 0 .. c
      BY <1>5, <3>3
    <3> QED  BY <1>2, <3>2, <3>3, <3>4
  <2> QED  BY <1>1, <1>2, <1>3, <1>4, <1>5, <1>10, <2>2 DEF Left
<1>11. CASE ~ b.modified
  <2>1. p = b.made + 1 /\ b.made \in Nat
    BY <1>1, <1>4, <1>11, UndoAssumption DEF Modifier, Buffer
  <2>2. ~ \E e \in Range(RedoOrder(b)) : e.id = p
    <3> SUFFICES ASSUME NEW k \in 1 .. l, A[c + k].id = p PROVE FALSE
      BY <1>9
    <3>1. c + k \in 1 .. n
      BY <1>5, <1>7, <1>1
    <3>2. A[c + k].id <= b.made
      BY <1>1, <3>1
    <3> QED  BY <2>1, <3>2
  <2>3. m = p
    BY <1>4, <2>2 DEF Forgotten
  <2>4. T1[c] = f
    <3>1. T[c] = f /\ c \in 0 .. c
      BY <1>1, <1>5, <1>11 DEF Marked
    <3> QED  BY <1>2, <3>1
  <2> QED  BY <1>1, <1>2, <1>3, <1>4, <1>5, <1>11, <2>1, <2>3, <2>4 DEF Left
<1> QED
  BY <1>10, <1>11

\* What holds for the line after the edit.
Marks(b, f, A2, T2, n2, m) ==
    /\ \A i \in 1 .. n2 : A2[i].id <= b.made + 1
    /\ m # None => \E k \in 1 .. n2 : A2[k].id = m /\ T2[k - 1] = f

LEMMA MarksAppended ==
    ASSUME NEW b \in Buffer, NEW f, NEW A1, NEW T1, NEW T, NEW c, NEW m,
           Left(b, f, A1, T1, T, c, m), NEW A2, NEW T2, NEW a, NEW t,
           a.id = b.made + 1, AtEnd(A1, T1, A2, T2, c + 1, a, t)
    PROVE  Marks(b, f, A2, T2, c + 1, m)
<1>1. /\ c \in Nat /\ b.made \in Nat /\ b.modified \in BOOLEAN
  BY UndoAssumption DEF Left, Line, Buffer
<1>2. /\ \A i \in 1 .. c : A2[i] = A1[i]
      /\ \A i \in 0 .. c : T2[i] = T1[i]
      /\ A2[c + 1] = a
  <2>1. (c + 1) - 1 = c
    BY <1>1
  <2> QED  BY <2>1 DEF AtEnd
<1>3. ASSUME NEW i \in 1 .. c + 1 PROVE A2[i].id <= b.made + 1
  <2>1. CASE i = c + 1
    BY <1>1, <1>2, <2>1
  <2>2. CASE i # c + 1
    <3>1. i \in 1 .. c
      BY <1>1, <2>2
    <3>2. A1[i].id <= b.made /\ A1[i].id \in Nat
      <4>1. A1[i] \in Action
        BY <3>1 DEF Left, Line
      <4>2. A1[i].id \in 1 .. MaxMade + 2
        BY <4>1 DEF Action
      <4> QED  BY <3>1, <4>2, UndoAssumption DEF Left
    <3>3. A2[i].id <= b.made + 1
      <4>1. A2[i].id <= b.made /\ A2[i].id \in Nat
        BY <1>2, <3>1, <3>2
      <4> QED  BY <1>1, <4>1
    <3> QED  BY <3>3
  <2> QED  BY <2>1, <2>2
<1>4. ASSUME m # None PROVE \E k \in 1 .. c + 1 : A2[k].id = m /\ T2[k - 1] = f
  <2>1. CASE b.modified
    <3>1. PICK k \in 1 .. c : A1[k].id = m /\ T1[k - 1] = f
      BY <1>4, <2>1 DEF Left
    <3>2. k \in 1 .. c + 1 /\ k - 1 \in 0 .. c
      BY <1>1
    <3> QED  BY <1>2, <3>1, <3>2
  <2>2. CASE ~ b.modified
    <3>1. m = b.made + 1 /\ T1[c] = f
      BY <2>2 DEF Left
    <3>2. c + 1 \in 1 .. c + 1 /\ (c + 1) - 1 = c /\ c \in 0 .. c
      BY <1>1
    <3> QED  BY <1>2, <3>1, <3>2
  <2> QED  BY <1>1, <2>1, <2>2
<1> QED
  BY <1>3, <1>4 DEF Marks

LEMMA MarksReplaced ==
    ASSUME NEW b \in Buffer, NEW f, NEW A1, NEW T1, NEW T, NEW c, c >= 1, NEW m,
           Left(b, f, A1, T1, T, c, m), NEW A2, NEW T2, NEW a, NEW t,
           a.id = A1[c].id, AtEnd(A1, T1, A2, T2, c, a, t)
    PROVE  /\ b.modified => Marks(b, f, A2, T2, c, m)
           /\ t = T1[c] => Left(b, f, A2, T2, T, c, m)
<1>1. /\ c \in Nat /\ b.made \in Nat /\ b.modified \in BOOLEAN
      /\ \A i \in 1 .. c : A1[i] \in Action
  BY UndoAssumption DEF Left, Line, Buffer
<1>2. /\ \A i \in 1 .. c - 1 : A2[i] = A1[i]
      /\ \A i \in 0 .. c - 1 : T2[i] = T1[i]
      /\ A2[c] = a /\ T2[c] = t /\ Line(A2, T2, c)
  BY DEF AtEnd
<1>3. ASSUME NEW i \in 1 .. c
      PROVE  A2[i].id = A1[i].id /\ A2[i].id <= b.made /\ A2[i].id <= b.made + 1
             /\ i - 1 \in 0 .. c - 1 /\ T2[i - 1] = T1[i - 1]
  <2>1. A2[i].id = A1[i].id
    <3>1. CASE i = c
      BY <1>2, <3>1
    <3>2. CASE i # c
      <4>1. i \in 1 .. c - 1
        BY <1>1, <3>2
      <4> QED  BY <1>2, <4>1
    <3> QED  BY <3>1, <3>2
  <2>2. A1[i].id <= b.made /\ A1[i].id \in Nat
    <3>1. A1[i].id \in 1 .. MaxMade + 2
      BY <1>1 DEF Action
    <3> QED  BY <3>1, UndoAssumption DEF Left
  <2>3. i - 1 \in 0 .. c - 1
    BY <1>1
  <2>4. A1[i].id <= b.made + 1
    BY <1>1, <2>2
  <2> QED  BY <1>2, <2>1, <2>2, <2>3, <2>4
<1>4. ASSUME b.modified, m # None
      PROVE  \E k \in 1 .. c : A2[k].id = m /\ T2[k - 1] = f
  BY <1>3, <1>4 DEF Left
<1>5. b.modified => Marks(b, f, A2, T2, c, m)
  BY <1>3, <1>4 DEF Marks
<1>6. ASSUME t = T1[c] PROVE Left(b, f, A2, T2, T, c, m)
  <2>1. \A i \in 0 .. c : T2[i] = T1[i]
    <3> SUFFICES ASSUME NEW i \in 0 .. c PROVE T2[i] = T1[i]
      OBVIOUS
    <3>1. CASE i = c
      BY <1>2, <1>6, <3>1
    <3>2. CASE i # c
      <4>1. i \in 0 .. c - 1
        BY <1>1, <3>2
      <4> QED  BY <1>2, <4>1
    <3> QED  BY <3>1, <3>2
  <2>2. \A i \in 0 .. c : T2[i] = T[i]
    BY <2>1 DEF Left
  <2>3. ~ b.modified => m = b.made + 1 /\ T2[c] = f
    BY <1>2, <1>6 DEF Left
  <2> QED  BY <1>2, <1>3, <1>4, <2>2, <2>3 DEF Left
<1> QED
  BY <1>5, <1>6

LEMMA PushAction ==
    ASSUME NEW b \in Buffer, NEW f, NEW A1, NEW T1, NEW T, NEW c, NEW m,
           Left(b, f, A1, T1, T, c, m), NEW us, NEW B1, UndoIs(us, A1, c, B1),
           NEW a \in Action, a.id = b.made + 1, NEW t \in Text,
           CanDo(T1[c], a), t = Applied(T1[c], a)
    PROVE  \E A2, T2 : /\ AtEnd(A1, T1, A2, T2, c + 1, a, t)
                       /\ Marks(b, f, A2, T2, c + 1, m)
                       /\ UndoIs(<<<<a>>>> \o us, A2, c + 1, Before(c + 1, B1, Len(us)))
<1>1. /\ Line(A1, T1, c) /\ c \in Nat /\ b.made \in Nat
      /\ \A i \in 1 .. c : A1[i] \in Action /\ A1[i].id <= b.made
  BY UndoAssumption DEF Left, Line, Buffer
<1>2. \A i \in 1 .. c : A1[i].id # a.id
  BY <1>1
<1>3. PICK A2, T2 : AtEnd(A1, T1, A2, T2, c + 1, a, t)
  BY <1>1, <1>2, Appended
<1>4. Marks(b, f, A2, T2, c + 1, m)
  BY <1>3, MarksAppended, Zenon
<1>5. A2[c + 1] = a /\ \A i \in 1 .. c : A2[i] = A1[i]
  <2>1. (c + 1) - 1 = c
    BY <1>1
  <2> QED  BY <1>3, <2>1 DEF AtEnd
<1>6. UndoIs(us, A2, c, B1)
  BY <1>5, UndoSame, Zenon
<1>7. PICK g \in Group : g = <<a>> /\ Len(g) = 1 /\ g[1] = a
  <2>1. <<a>> \in Group /\ Len(<<a>>) = 1 /\ <<a>>[1] = a
    BY DEF Group
  <2> QED  BY <2>1, Zenon
<1>8. PICK e : e = c + 1 /\ e - 1 + 1 = e /\ e = c + Len(g)
  BY <1>1, <1>7
<1>9. \A j \in 1 .. Len(g) : g[j] = A2[e - j + 1]
  BY <1>5, <1>7, <1>8
<1>10. UndoIs(<<g>> \o us, A2, e, Before(e, B1, Len(us)))
  BY <1>6, <1>8, <1>9, PushUndo, Zenon
<1> QED
  BY <1>3, <1>4, <1>7, <1>8, <1>10

\* The texts on the way back are those there were ...
PastKept(us, us2, T, T2, B, B2) ==
    /\ us # <<>> /\ us2 # <<>> /\ Len(us2) = Len(us)
    /\ \A i \in 1 .. Len(us) : T2[B2[i]] = T[B[i]]

\* ... or there is one more of them.
PastPushed(us, us2, T, T2, B, B2, c) ==
    /\ us2 # <<>> /\ Len(us2) = Len(us) + 1 /\ T2[B2[1]] = T[c]
    /\ \A i \in 1 .. Len(us) : T2[B2[i + 1]] = T[B[i]]

\* A line and a stack after the edit.
Grown(b, f, us2, t, m, A2, T2, n2, B2) ==
    /\ Line(A2, T2, n2) /\ T2[n2] = t
    /\ UndoIs(us2, A2, n2, B2)
    /\ Marks(b, f, A2, T2, n2, m)

LEMMA GrowsByGroup ==
    ASSUME NEW b \in Buffer, NEW f, NEW A1, NEW T1, NEW T, NEW c, NEW m,
           Left(b, f, A1, T1, T, c, m), NEW us, NEW B, UndoIs(us, A1, c, B),
           NEW a \in Action, a.id = b.made + 1, NEW t \in Text,
           CanDo(T1[c], a), t = Applied(T1[c], a)
    PROVE  \E A2, T2, n2, B2 :
              /\ Grown(b, f, <<<<a>>>> \o us, t, m, A2, T2, n2, B2)
              /\ PastPushed(us, <<<<a>>>> \o us, T, T2, B, B2, c)
<1>1. PICK A2, T2 : /\ AtEnd(A1, T1, A2, T2, c + 1, a, t)
                    /\ Marks(b, f, A2, T2, c + 1, m)
                    /\ UndoIs(<<<<a>>>> \o us, A2, c + 1, Before(c + 1, B, Len(us)))
  BY PushAction, Zenon
<1>2. PICK k \in Nat : k = Len(us) /\ us \in Seq(Group) /\ B[0] = c
  BY DEF UndoIs
<1>3. PICK P : P = Before(c + 1, B, k)
  OBVIOUS
<1>4. \A i \in 0 .. k : P[i + 1] = B[i]
  BY <1>3, BeforeIs
<1>5. c \in Nat /\ \A i \in 0 .. k : B[i] \in 0 .. c
  BY <1>2, UndoWithin, Zenon DEF UndoLimit
<1>6. \A i \in 0 .. c : T2[i] = T[i]
  <2>1. (c + 1) - 1 = c
    BY <1>5
  <2> QED  BY <1>1, <2>1 DEF AtEnd, Left
<1>7. PICK ps : ps = <<<<a>>>> \o us
  OBVIOUS
<1>8. Len(ps) = k + 1 /\ ps # <<>>
  <2>1. <<a>> \in Group
    BY DEF Group
  <2> QED  BY <1>2, <1>7, <2>1, Push
<1>9. T2[P[1]] = T[c]
  <2>1. 0 \in 0 .. k /\ 0 + 1 = 1 /\ c \in 0 .. c
    BY <1>5
  <2>2. P[1] = c
    BY <1>2, <1>4, <2>1
  <2> QED  BY <1>6, <2>1, <2>2
<1>10. \A i \in 1 .. k : T2[P[i + 1]] = T[B[i]]
  <2>1. \A i \in 1 .. k : i \in 0 .. k
    BY <1>2
  <2> QED  BY <1>4, <1>5, <1>6, <2>1
<1>11. PastPushed(us, ps, T, T2, B, P, c)
  BY <1>2, <1>8, <1>9, <1>10 DEF PastPushed
<1>12. Grown(b, f, ps, t, m, A2, T2, c + 1, P)
  BY <1>1, <1>2, <1>3, <1>7 DEF Grown, AtEnd
<1> QED
  BY <1>7, <1>11, <1>12

\* The latest action is another now, and does what it did: the latest action refused
\* the edit.
LEMMA TopRefuses ==
    ASSUME NEW b \in Buffer, NEW f, NEW A1, NEW T1, NEW T, NEW c, NEW m,
           Left(b, f, A1, T1, T, c, m), NEW us, us # <<>>, NEW B, UndoIs(us, A1, c, B),
           NEW a
    PROVE  /\ Head(Head(us)) = A1[c]
           /\ \E A2 : /\ Left(b, f, A2, T1, T, c, m)
                      /\ A2[c] = Refused(Head(Head(us)), a)
                      /\ Top(us, A2, c, B)
<1>1. /\ Line(A1, T1, c) /\ c \in Nat /\ A1 \in [1 .. c -> Action] /\ T1 \in [0 .. c -> Text]
      /\ \A i \in 1 .. c : CanDo(T1[i - 1], A1[i]) /\ T1[i] = Applied(T1[i - 1], A1[i])
  BY DEF Left, Line
<1>2. c >= 1
  BY PopUndo, GroupLength, <1>1
<1>3. c \in 1 .. c /\ c \in 0 .. c
  BY <1>1, <1>2
<1>4. PICK last \in Action : last = A1[c]
  BY <1>1, <1>3
<1>5. Head(Head(us)) = last
  <2>1. A1[c] \in Action /\ \A i \in 1 .. c - 1 : A1[i] = A1[i]
    BY <1>4
  <2> QED  BY <1>4, <2>1, TopIs
<1>6. PICK q : q = Refused(last, a)
  OBVIOUS
<1>7. q \in Action /\ q.id = last.id
  BY <1>6 DEF Refused, Action
<1>8. CanDo(T1[c - 1], q) /\ T1[c] = Applied(T1[c - 1], q) /\ T1[c] \in Text
  BY <1>1, <1>3, <1>4, <1>6, RefusedDoes
<1>9. PICK A2, T2 : AtEnd(A1, T1, A2, T2, c, q, T1[c])
  BY <1>1, <1>2, <1>4, <1>7, <1>8, Replaced
<1>10. Left(b, f, A2, T2, T, c, m)
  <2>1. q.id = A1[c].id
    BY <1>4, <1>7
  <2> QED  BY <1>2, <1>9, <2>1, MarksReplaced
<1>11. T2 = T1
  <2>1. T2 \in [0 .. c -> Text] /\ \A i \in 0 .. c : T2[i] = T1[i]
    BY <1>10 DEF Left, Line
  <2> QED  BY <1>1, <2>1
<1>12. Top(us, A2, c, B)
  <2>1. A2[c] \in Action /\ \A i \in 1 .. c - 1 : A2[i] = A1[i]
    BY <1>7, <1>9 DEF AtEnd
  <2> QED  BY <2>1, TopIs, Zenon
<1>13. A2[c] = q
  BY <1>9 DEF AtEnd
<1> QED
  BY <1>4, <1>5, <1>6, <1>10, <1>11, <1>12, <1>13

\* The place of the groups below the top one.
Below(us, c, B, k, P) ==
    /\ Len(Tail(us)) = k - 1 /\ k \in Nat /\ k >= 1
    /\ \A i \in 1 .. k : P[i] = B[i] /\ B[i] \in 0 .. c - 1

LEMMA BelowTop ==
    ASSUME NEW us \in Seq(Group), us # <<>>, NEW A2, NEW c, NEW B, Top(us, A2, c, B), NEW k,
           k = Len(us), NEW x
    PROVE  Below(us, c, B, k, Before(x, Later(B, k), k - 1))
<1>1. Len(Tail(us)) = k - 1 /\ k \in Nat /\ k >= 1
  BY Pop
<1>2. UndoIs(Tail(us), A2, B[1], Later(B, k)) /\ c \in Nat /\ B[1] \in 0 .. c - 1
  BY DEF Top
<1>3. PICK L, ts : L = Later(B, k) /\ ts = Tail(us)
  OBVIOUS
<1>4. \A i \in 0 .. k - 1 : L[i] \in 0 .. B[1] /\ L[i] = B[i + 1]
  <2>1. UndoLimit(ts, B[1], L)
    BY <1>2, <1>3, UndoWithin, Zenon
  <2>2. \A i \in 0 .. k - 1 : L[i] \in 0 .. B[1]
    BY <1>1, <1>3, <2>1 DEF UndoLimit
  <2>3. \A i \in 0 .. k - 1 : L[i] = B[i + 1]
    BY <1>3 DEF Later
  <2> QED  BY <2>2, <2>3
<1>5. k - 1 \in Nat
  BY <1>1
<1>6. PICK P : P = Before(x, L, k - 1)
  OBVIOUS
<1>7. \A i \in 0 .. k - 1 : P[i + 1] = L[i]
  BY <1>5, <1>6, BeforeIs
<1>8. ASSUME NEW i \in 1 .. k PROVE P[i] = B[i] /\ B[i] \in 0 .. c - 1
  <2>1. i - 1 \in 0 .. k - 1 /\ (i - 1) + 1 = i
    BY <1>1
  <2>2. P[i] = B[i] /\ B[i] \in 0 .. B[1]
    BY <1>4, <1>7, <2>1
  <2> QED  BY <1>2, <2>2
<1> QED
  BY <1>1, <1>3, <1>6, <1>8 DEF Below

\* An edit that joins the group of the latest action, which refused it.
LEMMA GrowsInGroup ==
    ASSUME NEW b \in Buffer, NEW f, NEW A1, NEW T1, NEW T, NEW c, NEW m,
           Left(b, f, A1, T1, T, c, m), NEW us, us # <<>>, NEW B, UndoIs(us, A1, c, B),
           NEW a \in Action, a.id = b.made + 1, NEW t \in Text,
           CanDo(T1[c], a), t = Applied(T1[c], a), NEW us2,
           us2 = <<<<a>> \o (<<Refused(Head(Head(us)), a)>> \o Tail(Head(us)))>> \o Tail(us)
    PROVE  \E A2, T2, n2, B2 :
              /\ Grown(b, f, us2, t, m, A2, T2, n2, B2)
              /\ PastKept(us, us2, T, T2, B, B2)
<1>1. PICK A0 : /\ Left(b, f, A0, T1, T, c, m)
                /\ A0[c] = Refused(Head(Head(us)), a)
                /\ Top(us, A0, c, B)
  BY TopRefuses
<1>2. PICK g : g = <<A0[c]>> \o Tail(Head(us))
  OBVIOUS
<1>3. /\ c \in Nat /\ c >= 1 /\ B[1] \in 0 .. c - 1
      /\ g \in Group /\ c = B[1] + Len(g)
      /\ \A j \in 1 .. Len(g) : g[j] = A0[c - j + 1]
      /\ UndoIs(Tail(us), A0, B[1], Later(B, Len(us)))
  BY <1>1, <1>2 DEF Top
<1>a. Left(b, f, A0, T1, T, c, m)
  BY <1>1
<1>b. b.made \in Nat
  BY UndoAssumption DEF Buffer
<1>4. /\ Line(A0, T1, c) /\ b.made \in Nat
      /\ \A i \in 1 .. c : A0[i] \in Action /\ A0[i].id <= b.made
  BY <1>a, <1>b DEF Left, Line
<1>5. \A i \in 1 .. c : A0[i].id # a.id
  BY <1>4
<1>6. PICK A2, T2 : AtEnd(A0, T1, A2, T2, c + 1, a, t)
  BY <1>4, <1>5, Appended
<1>7. Marks(b, f, A2, T2, c + 1, m)
  BY <1>1, <1>6, MarksAppended, Zenon
<1>8. /\ A2[c + 1] = a /\ \A i \in 1 .. c : A2[i] = A0[i]
      /\ \A i \in 0 .. c : T2[i] = T1[i]
  <2>1. (c + 1) - 1 = c
    BY <1>3
  <2> QED  BY <1>6, <2>1 DEF AtEnd
<1>9. UndoIs(Tail(us), A2, B[1], Later(B, Len(us)))
  <2>1. \A i \in 1 .. B[1] : A2[i] = A0[i]
    BY <1>3, <1>8
  <2> QED  BY <1>3, <2>1, UndoSame, Zenon
<1>10. PICK h : h = <<a>> \o g
  OBVIOUS
<1>11. PICK l : l = Len(g)
  OBVIOUS
<1>12. l \in Nat /\ g \in Seq(Action)
  BY <1>3, <1>11, GroupLength
<1>13. /\ h \in Seq(Action) /\ h # <<>> /\ Len(h) = l + 1 /\ h[1] = a
       /\ \A i \in 1 .. l : h[i + 1] = g[i]
  BY <1>10, <1>11, <1>12, Push
<1>14. PICK e : e = c + 1 /\ e = B[1] + (l + 1) /\ e - 1 + 1 = c + 1
  <2>1. PICK x \in Nat : x = B[1]
    BY <1>3
  <2>2. c + 1 = x + (l + 1) /\ (c + 1) - 1 + 1 = c + 1
    BY <1>3, <1>11, <1>12, <2>1
  <2> QED  BY <2>1, <2>2
<1>15. ASSUME NEW j \in 1 .. l + 1 PROVE h[j] = A2[e - j + 1]
  <2>1. CASE j = 1
    BY <1>8, <1>13, <1>14, <2>1
  <2>2. CASE j # 1
    <3>1. PICK i \in 1 .. l : j = i + 1
      <4>1. j - 1 \in 1 .. l /\ j = (j - 1) + 1
        BY <1>12, <2>2
      <4> QED  BY <4>1
    <3>2. h[j] = g[i] /\ g[i] = A0[c - i + 1]
      BY <1>3, <1>11, <1>13, <3>1
    <3>3. c - i + 1 \in 1 .. c /\ e - j + 1 = c - i + 1
      <4>1. PICK x \in Nat : x = B[1]
        BY <1>3
      <4>2. c = x + l /\ e = c + 1
        BY <1>3, <1>11, <1>14, <4>1
      <4>3. l \in Nat /\ c \in Nat
        BY <1>3, <1>12
      <4> QED  BY <3>1, <4>2, <4>3
    <3> QED  BY <1>8, <3>2, <3>3
  <2> QED  BY <2>1, <2>2
<1>16. h \in Group
  BY <1>13 DEF Group
<1>17. PICK k, P : k = Len(us) /\ P = Before(e, Later(B, k), k - 1)
  OBVIOUS
<1>18. us \in Seq(Group)
  BY DEF UndoIs
<1>19. /\ Len(Tail(us)) = k - 1 /\ k \in Nat /\ k >= 1
       /\ \A i \in 1 .. k : P[i] = B[i] /\ B[i] \in 0 .. c - 1
  <2>1. /\ Len(Tail(us)) = k - 1 /\ k \in Nat /\ k >= 1
        /\ \A i \in 1 .. k : /\ Before(e, Later(B, k), k - 1)[i] = B[i]
                             /\ B[i] \in 0 .. c - 1
    <3>1. Top(us, A0, c, B) /\ k = Len(us)
      BY <1>1, <1>17
    <3>2. Below(us, c, B, k, Before(e, Later(B, k), k - 1))
      BY <1>18, <3>1, BelowTop, Zenon
    <3> QED  BY <3>2 DEF Below
  <2> QED  BY <1>17, <2>1
<1>20. us2 = <<h>> \o Tail(us)
  BY <1>1, <1>2, <1>10
<1>21. UndoIs(us2, A2, e, P)
  <2>1. e = B[1] + Len(h) /\ \A j \in 1 .. Len(h) : h[j] = A2[e - j + 1]
    BY <1>13, <1>14, <1>15
  <2>2. UndoIs(<<h>> \o Tail(us), A2, e, Before(e, Later(B, Len(us)), Len(Tail(us))))
    BY <1>9, <1>16, <2>1, PushUndo, Zenon
  <2> QED  BY <1>17, <1>19, <1>20, <2>2
<1>22. Grown(b, f, us2, t, m, A2, T2, e, P)
  BY <1>6, <1>7, <1>14, <1>21 DEF Grown, AtEnd
<1>23. PastKept(us, us2, T, T2, B, P)
  <2>1. us2 # <<>> /\ Len(us2) = k
    <3>1. PICK ts : ts = Tail(us) /\ ts \in Seq(Group)
      BY <1>18, Pop
    <3>2. us2 # <<>> /\ Len(us2) = (k - 1) + 1
      BY <1>16, <1>19, <1>20, <3>1, Push
    <3> QED  BY <1>19, <3>2
  <2>2. \A i \in 0 .. c - 1 : T2[i] = T[i]
    <3>1. \A i \in 0 .. c : T2[i] = T[i]
      BY <1>1, <1>8 DEF Left
    <3>2. 0 .. c - 1 \subseteq 0 .. c
      BY <1>3
    <3> QED  BY <3>1, <3>2
  <2>3. \A i \in 1 .. k : T2[P[i]] = T[B[i]]
    BY <1>19, <2>2
  <2> QED  BY <1>17, <2>1, <2>3 DEF PastKept
<1> QED
  BY <1>22, <1>23

\* The top group with another latest action is on the stack as before.
SameTop(us, us2, A2, c, B, P) ==
    /\ UndoIs(us2, A2, c, P)
    /\ us2 \in Seq(Group) /\ us2 # <<>> /\ Len(us2) = Len(us)
    /\ \A i \in 1 .. Len(us) : P[i] = B[i] /\ B[i] \in 0 .. c - 1

LEMMA TopPushed ==
    ASSUME NEW us \in Seq(Group), us # <<>>, NEW A2, NEW c, NEW B, Top(us, A2, c, B), NEW us2,
           us2 = <<<<A2[c]>> \o Tail(Head(us))>> \o Tail(us)
    PROVE  \E P : SameTop(us, us2, A2, c, B, P)
<1>1. PICK g : g = <<A2[c]>> \o Tail(Head(us))
  OBVIOUS
<1>2. /\ c \in Nat /\ g \in Group /\ c = B[1] + Len(g)
      /\ \A j \in 1 .. Len(g) : g[j] = A2[c - j + 1]
      /\ UndoIs(Tail(us), A2, B[1], Later(B, Len(us)))
  BY <1>1 DEF Top
<1>3. PICK k : k = Len(us)
  OBVIOUS
<1>4. PICK P : P = Before(c, Later(B, k), k - 1)
  OBVIOUS
<1>5. Below(us, c, B, k, P)
  BY <1>3, <1>4, BelowTop, Zenon
<1>6. /\ Len(Tail(us)) = k - 1 /\ k \in Nat /\ k >= 1
      /\ \A i \in 1 .. k : P[i] = B[i] /\ B[i] \in 0 .. c - 1
  BY <1>5 DEF Below
<1>7. us2 = <<g>> \o Tail(us)
  BY <1>1
<1>8. UndoIs(us2, A2, c, P)
  <2>1. UndoIs(<<g>> \o Tail(us), A2, c, Before(c, Later(B, Len(us)), Len(Tail(us))))
    BY <1>2, PushUndo, Zenon
  <2> QED  BY <1>3, <1>4, <1>6, <1>7, <2>1
<1>9. us2 # <<>> /\ Len(us2) = k
  <2>1. PICK ts : ts = Tail(us) /\ ts \in Seq(Group)
    BY Pop
  <2>2. us2 # <<>> /\ Len(us2) = (k - 1) + 1
    BY <1>2, <1>6, <1>7, <2>1, Push
  <2> QED  BY <1>6, <2>2
<1>10. us2 \in Seq(Group)
  BY <1>8 DEF UndoIs
<1> QED
  BY <1>3, <1>6, <1>8, <1>9, <1>10 DEF SameTop

\* An edit in a group of its own, which the latest action refused.
LEMMA GrowsApart ==
    ASSUME NEW b \in Buffer, NEW f, NEW A1, NEW T1, NEW T, NEW c, NEW m,
           Left(b, f, A1, T1, T, c, m), NEW us, us # <<>>, NEW B, UndoIs(us, A1, c, B),
           NEW a \in Action, a.id = b.made + 1, NEW t \in Text,
           CanDo(T1[c], a), t = Applied(T1[c], a), NEW us1, NEW us2,
           us1 = <<<<Refused(Head(Head(us)), a)>> \o Tail(Head(us))>> \o Tail(us),
           us2 = <<<<a>>>> \o us1
    PROVE  \E A2, T2, n2, B2 :
              /\ Grown(b, f, us2, t, m, A2, T2, n2, B2)
              /\ PastPushed(us, us2, T, T2, B, B2, c)
<1>1. PICK A0 : /\ Left(b, f, A0, T1, T, c, m)
                /\ A0[c] = Refused(Head(Head(us)), a)
                /\ Top(us, A0, c, B)
  BY TopRefuses
<1>2. us \in Seq(Group)
  BY DEF UndoIs
<1>3. us1 = <<<<A0[c]>> \o Tail(Head(us))>> \o Tail(us)
  BY <1>1
<1>4. PICK P : /\ UndoIs(us1, A0, c, P) /\ Len(us1) = Len(us)
               /\ \A i \in 1 .. Len(us) : P[i] = B[i] /\ B[i] \in 0 .. c - 1
  <2>1. Top(us, A0, c, B)
    BY <1>1
  <2>2. \E P : SameTop(us, us1, A0, c, B, P)
    BY <1>2, <1>3, <2>1, TopPushed, Zenon
  <2> QED  BY <2>2, Zenon DEF SameTop
<1>5. PICK A2, T2, n2, B2 : /\ Grown(b, f, <<<<a>>>> \o us1, t, m, A2, T2, n2, B2)
                            /\ PastPushed(us1, <<<<a>>>> \o us1, T, T2, P, B2, c)
  <2>1. Left(b, f, A0, T1, T, c, m)
    BY <1>1
  <2> QED  BY <1>4, <2>1, GrowsByGroup, Zenon
<1>6. PastPushed(us, us2, T, T2, B, B2, c)
  BY <1>4, <1>5 DEF PastPushed
<1> QED
  BY <1>5, <1>6

\* An edit merged into the latest action.
LEMMA GrowsMerged ==
    ASSUME NEW b \in Buffer, NEW f, NEW A1, NEW T1, NEW T, NEW c, NEW m,
           Left(b, f, A1, T1, T, c, m), NEW us, us # <<>>, NEW B, UndoIs(us, A1, c, B),
           NEW a \in Action, NEW t \in Text, Merges(b, Head(Head(us)), a),
           CanDo(T1[c], a), t = Applied(T1[c], a), NEW us2,
           us2 = <<<<Merged(Head(Head(us)), a)>> \o Tail(Head(us))>> \o Tail(us)
    PROVE  \E A2, T2, n2, B2 :
              /\ Grown(b, f, us2, t, m, A2, T2, n2, B2)
              /\ PastKept(us, us2, T, T2, B, B2)
<1>1. /\ Line(A1, T1, c) /\ c \in Nat /\ A1 \in [1 .. c -> Action] /\ T1 \in [0 .. c -> Text]
      /\ \A i \in 1 .. c : CanDo(T1[i - 1], A1[i]) /\ T1[i] = Applied(T1[i - 1], A1[i])
  BY DEF Left, Line
<1>2. c >= 1
  BY PopUndo, GroupLength, <1>1
<1>3. c \in 1 .. c /\ c \in 0 .. c /\ c - 1 \in 0 .. c
  BY <1>1, <1>2
<1>4. PICK last \in Action : last = A1[c]
  BY <1>1, <1>3
<1>5. Head(Head(us)) = last
  <2>1. A1[c] \in Action /\ \A i \in 1 .. c - 1 : A1[i] = A1[i]
    BY <1>4
  <2> QED  BY <1>4, <2>1, TopIs
<1>6. PICK s \in Text : s = T1[c - 1] /\ CanDo(s, last) /\ T1[c] = Applied(s, last)
  BY <1>1, <1>3, <1>4
<1>7. PICK q : q = Merged(last, a)
  OBVIOUS
<1>8. q \in AnyAction /\ CanDo(s, q) /\ Applied(s, q) = t
  <2>1. s \in String /\ last \in AnyAction /\ a \in AnyAction
    BY ActionsAreActions DEF Text, String
  <2>2. Merges(b, last, a) /\ CanDo(Applied(s, last), a) /\ t = Applied(Applied(s, last), a)
    BY <1>5, <1>6
  <2>3. /\ Merged(last, a) \in AnyAction /\ CanDo(s, Merged(last, a))
        /\ Applied(s, Merged(last, a)) = Applied(Applied(s, last), a)
    <3>1. CanDo(s, last)
      BY <1>6
    <3> QED  BY <2>1, <2>2, <3>1, MergedIsBoth
  <2> QED  BY <1>7, <2>2, <2>3
<1>9. q.id = last.id /\ q.text # <<>> /\ q.id \in 1 .. MaxMade + 2
  <2>1. last.id \in 1 .. MaxMade + 2
    BY DEF Action
  <2>2. q.id = last.id /\ q.text # <<>>
    BY <1>7, MergedHas, Zenon
  <2> QED  BY <2>1, <2>2
<1>10. q \in Action
  BY <1>8, <1>9, IsBounded
<1>11. PICK A2, T2 : AtEnd(A1, T1, A2, T2, c, q, t)
  BY <1>1, <1>2, <1>4, <1>6, <1>8, <1>9, <1>10, Replaced
<1>12. Marks(b, f, A2, T2, c, m)
  <2>1. b.modified
    BY DEF Merges, MayMerge
  <2>2. q.id = A1[c].id
    BY <1>4, <1>9
  <2> QED  BY <1>2, <1>11, <2>1, <2>2, MarksReplaced
<1>13. /\ A2[c] = q /\ T2[c] = t /\ Line(A2, T2, c)
       /\ \A i \in 1 .. c - 1 : A2[i] = A1[i]
       /\ \A i \in 0 .. c - 1 : T2[i] = T1[i]
  BY <1>11 DEF AtEnd
<1>14. Top(us, A2, c, B)
  BY <1>10, <1>13, TopIs, Zenon
<1>15. us \in Seq(Group)
  BY DEF UndoIs
<1>16. us2 = <<<<A2[c]>> \o Tail(Head(us))>> \o Tail(us)
  BY <1>5, <1>7, <1>13
<1>17. PICK P : /\ UndoIs(us2, A2, c, P)
                /\ us2 # <<>> /\ Len(us2) = Len(us)
                /\ \A i \in 1 .. Len(us) : P[i] = B[i] /\ B[i] \in 0 .. c - 1
  <2>1. \E P : SameTop(us, us2, A2, c, B, P)
    BY <1>14, <1>15, <1>16, TopPushed, Zenon
  <2> QED  BY <2>1, Zenon DEF SameTop
<1>18. Grown(b, f, us2, t, m, A2, T2, c, P)
  BY <1>12, <1>13, <1>17 DEF Grown
<1>19. PastKept(us, us2, T, T2, B, P)
  <2>1. \A i \in 0 .. c - 1 : T2[i] = T[i]
    <3>1. 0 .. c - 1 \subseteq 0 .. c
      BY <1>1
    <3>2. \A i \in 0 .. c : T1[i] = T[i]
      BY DEF Left
    <3>3. \A i \in 0 .. c - 1 : T2[i] = T1[i]
      BY <1>13
    <3> QED  BY <3>1, <3>2, <3>3
  <2> QED  BY <1>17, <2>1 DEF PastKept
<1> QED
  BY <1>18, <1>19

\* The action of an edit, and the buffer after it.
NewAction(b, type, pos, s, interactive, forward) ==
    [type |-> type, id |-> b.made + 1, pos |-> pos, text |-> s,
     interactive |-> interactive, mergeable |-> Mergeable(s),
     forward |-> interactive /\ forward]

EditedBy(b, a, inAction) ==
    [text             |-> Applied(b.text, a),
     modified         |-> TRUE,
     modifying_action |-> Forgotten(Modifier(b, a), b),
     undo_stack       |-> WithAction(b, a),
     redo_stack       |-> <<>>,
     new_group        |-> FALSE,
     do_continue      |-> b.do_continue \/ inAction,
     made             |-> a.id]

LEMMA EditedIs ==
    ASSUME NEW b, NEW type, NEW pos, NEW s, NEW interactive, NEW forward, NEW inAction
    PROVE  Edited(b, type, pos, s, interactive, forward, inAction) =
           EditedBy(b, NewAction(b, type, pos, s, interactive, forward), inAction)
BY DEF Edited, EditedBy, NewAction

\* The stack after an edit, whatever group it joins.
LEMMA StackGrows ==
    ASSUME NEW b \in Buffer, NEW f, NEW A1, NEW T1, NEW T, NEW c, NEW m,
           Left(b, f, A1, T1, T, c, m), NEW B, UndoIs(b.undo_stack, A1, c, B),
           NEW a \in Action, a.id = b.made + 1, NEW t \in Text,
           CanDo(T1[c], a), t = Applied(T1[c], a)
    PROVE  \E A2, T2, n2, B2 :
              /\ Grown(b, f, WithAction(b, a), t, m, A2, T2, n2, B2)
              /\ \/ PastKept(b.undo_stack, WithAction(b, a), T, T2, B, B2)
                 \/ /\ b.do_continue => StartsGroup(b)
                    /\ PastPushed(b.undo_stack, WithAction(b, a), T, T2, B, B2, c)
<1>1. PICK us, us2 : us = b.undo_stack /\ us2 = WithAction(b, a)
  OBVIOUS
<1>2. UndoIs(us, A1, c, B)
  BY <1>1
<1>3. CASE StartsGroup(b)
  <2>1. us2 = <<<<a>>>> \o us
    BY <1>1, <1>3 DEF WithAction
  <2>2. \E A2, T2, n2, B2 :
              /\ Grown(b, f, <<<<a>>>> \o us, t, m, A2, T2, n2, B2)
              /\ PastPushed(us, <<<<a>>>> \o us, T, T2, B, B2, c)
    BY <1>2, GrowsByGroup, Zenon
  <2> QED  BY <1>1, <1>3, <2>1, <2>2
<1>4. CASE ~ StartsGroup(b)
  <2>1. us # <<>>
    BY <1>1, <1>4 DEF StartsGroup
  <2>2. PICK last, others, groups : /\ last = Head(Head(us)) /\ others = Tail(Head(us))
                                    /\ groups = Tail(us)
    OBVIOUS
  <2>3. us2 = CASE Merges(b, last, a) -> <<<<Merged(last, a)>> \o others>> \o groups
                [] ~ Merges(b, last, a) /\ Continues(b) ->
                       <<<<a>> \o (<<Refused(last, a)>> \o others)>> \o groups
                [] OTHER -> <<<<a>>, <<Refused(last, a)>> \o others>> \o groups
    BY <1>1, <1>4, <2>2 DEF WithAction
  <2>4. CASE Merges(b, last, a)
    <3>1. us2 = <<<<Merged(last, a)>> \o others>> \o groups
      BY <2>3, <2>4
    <3>2. us2 = <<<<Merged(Head(Head(us)), a)>> \o Tail(Head(us))>> \o Tail(us)
      BY <2>2, <3>1
    <3>3. Merges(b, Head(Head(us)), a)
      BY <2>2, <2>4
    <3>4. \E A2, T2, n2, B2 :
              /\ Grown(b, f, us2, t, m, A2, T2, n2, B2)
              /\ PastKept(us, us2, T, T2, B, B2)
      BY <1>2, <2>1, <3>2, <3>3, GrowsMerged, Zenon
    <3> QED  BY <1>1, <3>4
  <2>5. CASE ~ Merges(b, last, a) /\ Continues(b)
    <3>1. us2 = <<<<a>> \o (<<Refused(last, a)>> \o others)>> \o groups
      BY <2>3, <2>5
    <3>2. us2 = <<<<a>> \o (<<Refused(Head(Head(us)), a)>> \o Tail(Head(us)))>> \o Tail(us)
      BY <2>2, <3>1
    <3>3. \E A2, T2, n2, B2 :
              /\ Grown(b, f, us2, t, m, A2, T2, n2, B2)
              /\ PastKept(us, us2, T, T2, B, B2)
      BY <1>2, <2>1, <3>2, GrowsInGroup, Zenon
    <3> QED  BY <1>1, <3>3
  <2>6. CASE ~ Merges(b, last, a) /\ ~ Continues(b)
    <3>1. us2 = <<<<a>>, <<Refused(last, a)>> \o others>> \o groups
      BY <2>3, <2>6
    <3>2. PICK g, us1 : g = <<Refused(last, a)>> \o others /\ us1 = <<g>> \o groups
      OBVIOUS
    <3>3. us2 = <<<<a>>>> \o us1
      <4>1. PICK S : <<a>> \in S /\ g \in S /\ groups \in Seq(S)
        <5>1. us \in Seq(Group) /\ groups \in Seq(Group)
          BY <1>2, <2>1, <2>2, Pop DEF UndoIs
        <5>2. groups \in Seq(Group \cup {<<a>>, g})
          BY <5>1
        <5> QED  BY <5>2
      <4>2. <<<<a>>, g>> = <<<<a>>>> \o <<g>>
        OBVIOUS
      <4>3. (<<<<a>>>> \o <<g>>) \o groups = <<<<a>>>> \o (<<g>> \o groups)
        <5>1. <<<<a>>>> \in Seq(S) /\ <<g>> \in Seq(S)
          BY <4>1
        <5> QED  BY <4>1, <5>1, ConcatAssociative
      <4> QED  BY <3>1, <3>2, <4>2, <4>3
    <3>4. us1 = <<<<Refused(Head(Head(us)), a)>> \o Tail(Head(us))>> \o Tail(us)
      BY <2>2, <3>2
    <3>5. \E A2, T2, n2, B2 :
              /\ Grown(b, f, us2, t, m, A2, T2, n2, B2)
              /\ PastPushed(us, us2, T, T2, B, B2, c)
      BY <1>2, <2>1, <3>3, <3>4, GrowsApart, Zenon
    <3>6. ~ b.do_continue
      BY <2>6 DEF Continues
    <3> QED  BY <1>1, <3>5, <3>6
  <2> QED  BY <2>4, <2>5, <2>6
<1> QED
  BY <1>3, <1>4

\* The buffer after an edit is at the end of its line.
EditMoved(b, d, f, T, c, B) ==
    \E A2, T2, n2, B2, D2 :
       /\ OnLine(d, f, A2, T2, n2, n2, B2, D2)
       /\ \/ PastKept(b.undo_stack, d.undo_stack, T, T2, B, B2)
          \/ /\ b.do_continue => StartsGroup(b)
             /\ PastPushed(b.undo_stack, d.undo_stack, T, T2, B, B2, c)

LEMMA EditMoves ==
    ASSUME NEW b, NEW f, NEW A, NEW T, NEW n, NEW c, NEW B, NEW D,
           OnLine(b, f, A, T, n, c, B, D), NEW a \in Action, a.id = b.made + 1,
           CanDo(b.text, a), Applied(b.text, a) \in Text, NEW inAction \in BOOLEAN
    PROVE  EditMoved(b, EditedBy(b, a, inAction), f, T, c, B)
<1>1. b \in Buffer /\ b.text = T[c]
  BY DEF OnLine, At
<1>a. PICK m : m = Forgotten(Modifier(b, a), b)
  OBVIOUS
<1>b. PICK t \in Text : t = Applied(b.text, a)
  OBVIOUS
<1>2. m = Forgotten(Modifier(b, a), b) /\ t = Applied(b.text, a)
  BY <1>a, <1>b
<1>3. PICK A1, T1 : Left(b, f, A1, T1, T, c, m) /\ UndoIs(b.undo_stack, A1, c, B)
  BY <1>2, EditLeaves
<1>4. T1[c] = b.text
  <2>1. c \in 0 .. c
    BY DEF OnLine, Line
  <2> QED  BY <1>1, <1>3, <2>1 DEF Left
<1>5. PICK A2, T2, n2, B2 :
              /\ Grown(b, f, WithAction(b, a), t, m, A2, T2, n2, B2)
              /\ \/ PastKept(b.undo_stack, WithAction(b, a), T, T2, B, B2)
                 \/ /\ b.do_continue => StartsGroup(b)
                    /\ PastPushed(b.undo_stack, WithAction(b, a), T, T2, B, B2, c)
  <2>1. CanDo(T1[c], a) /\ t = Applied(T1[c], a)
    BY <1>2, <1>4
  <2> QED  BY <1>1, <1>3, <2>1, StackGrows, Zenon
<1>6. PICK d : d = EditedBy(b, a, inAction)
  OBVIOUS
<1>7. /\ Line(A2, T2, n2) /\ T2[n2] = t
      /\ UndoIs(WithAction(b, a), A2, n2, B2)
      /\ \A i \in 1 .. n2 : A2[i].id <= a.id
      /\ m # None => \E k \in 1 .. n2 : A2[k].id = m /\ T2[k - 1] = f
  BY <1>5 DEF Grown, Marks
<1>8. d \in Buffer
  <2>1. WithAction(b, a) \in Seq(Group) /\ <<>> \in Seq(Group)
    BY <1>7 DEF UndoIs
  <2>2. m \in 0 .. MaxMade + 2 /\ a.id \in 0 .. MaxMade + 2
    <3>1. a.id \in 0 .. MaxMade + 2 /\ 0 \in 0 .. MaxMade + 2
      BY UndoAssumption DEF Action
    <3>2. Modifier(b, a) \in 0 .. MaxMade + 2
      BY <1>1, <3>1 DEF Modifier, Buffer
    <3> QED  BY <1>2, <3>1, <3>2 DEF Forgotten, None
  <2>3. (b.do_continue \/ inAction) \in BOOLEAN
    OBVIOUS
  <2> QED  BY <1>2, <1>6, <2>1, <2>2, <2>3 DEF EditedBy, Buffer
<1>9. At(d, f, A2, T2, n2, n2)
  <2>1. d.modified /\ d.modifying_action = m /\ d.text = t
    BY <1>2, <1>6 DEF EditedBy
  <2>2. n2 \in Nat
    BY <1>7 DEF Line
  <2>3. \A k \in 1 .. n2 : ~(n2 < k)
    BY <2>2
  <2> QED  BY <1>7, <1>8, <2>1, <2>3 DEF At, Marked
<1>10. PICK D2 : RedoIs(<<>>, A2, n2, n2, D2)
  <2>1. n2 \in Nat
    BY <1>7 DEF Line
  <2>2. PICK D2 : D2 = [i \in 0 .. 0 |-> n2]
    OBVIOUS
  <2>3. <<>> \in Seq(Group) /\ Len(<<>>) = 0 /\ \A i \in 1 .. 0 : FALSE
    OBVIOUS
  <2>4. D2 \in [0 .. 0 -> Nat] /\ D2[0] = n2
    BY <2>1, <2>2
  <2> QED  BY <2>3, <2>4 DEF RedoIs
<1>11. d.undo_stack = WithAction(b, a) /\ d.redo_stack = <<>> /\ d.made = a.id
  BY <1>6 DEF EditedBy
<1>12. OnLine(d, f, A2, T2, n2, n2, B2, D2)
  <2>1. n2 \in 0 .. n2
    BY <1>7 DEF Line
  <2> QED  BY <1>7, <1>9, <1>10, <1>11, <2>1 DEF OnLine
<1>13. \/ PastKept(b.undo_stack, d.undo_stack, T, T2, B, B2)
       \/ /\ b.do_continue => StartsGroup(b)
          /\ PastPushed(b.undo_stack, d.undo_stack, T, T2, B, B2, c)
  BY <1>5, <1>11
<1> QED
  BY <1>6, <1>12, <1>13 DEF EditMoved

-----------------------------------------------------------------------------
(* The edits of the document are actions that can be done to its text. *)

LEMMA SliceSplits ==
    ASSUME NEW t \in String, NEW p \in 0 .. Len(t), NEW e \in 0 .. Len(t), p <= e
    PROVE  /\ Slice(t, p, e) \in String /\ Len(Slice(t, p, e)) = e - p
           /\ \E x, y \in String : t = (x \o Slice(t, p, e)) \o y /\ p = Len(x)
<1>1. PICK n \in Nat : n = Len(t)
  BY DEF String
<1>2. p \in Nat /\ e \in Nat /\ e <= n
  BY <1>1
<1>3. PICK u \in String, y \in String : t = u \o y /\ Len(u) = e
  BY Split
<1>4. PICK x \in String, w \in String : u = x \o w /\ Len(x) = p
  <2>1. p \in 0 .. Len(u)
    BY <1>2, <1>3
  <2> QED  BY <2>1, Split
<1>5. PICK s \in String : /\ s = Slice(t, p, e) /\ Len(s) = e - p
                          /\ \A i \in 1 .. e - p : s[i] = t[p + i]
  <2>1. /\ Slice(t, p, e) \in String /\ Len(Slice(t, p, e)) = e - p
        /\ \A i \in 1 .. e - p : Slice(t, p, e)[i] = t[p + i]
    BY <1>1, <1>2, SliceIs, ZenonT(60)
  <2> QED  BY <2>1
<1>6. /\ Len(u) = Len(x) + Len(w) /\ Len(w) \in Nat
      /\ \A i \in 1 .. Len(w) : u[Len(x) + i] = w[i]
  <2>1. /\ Len(x \o w) = Len(x) + Len(w) /\ Len(w) \in Nat
        /\ \A i \in 1 .. Len(w) : (x \o w)[Len(x) + i] = w[i]
    BY JoinIs, Zenon
  <2>2. u = x \o w
    BY <1>4
  <2> QED  BY <2>1, <2>2, Zenon
<1>7. \A i \in 1 .. Len(u) : t[i] = u[i]
  <2>1. \A i \in 1 .. Len(u) : (u \o y)[i] = u[i]
    BY JoinIs, Zenon
  <2> QED  BY <1>3, <2>1, Zenon
<1>8. Len(w) = e - p
  BY <1>2, <1>3, <1>4, <1>6
<1>9. \A i \in 1 .. e - p : s[i] = w[i]
  <2> SUFFICES ASSUME NEW i \in 1 .. e - p PROVE s[i] = w[i]
    OBVIOUS
  <2>1. p + i \in 1 .. e
    BY <1>2
  <2>2. t[p + i] = u[p + i]
    BY <1>3, <1>7, <2>1
  <2>3. u[p + i] = w[i]
    BY <1>4, <1>6, <1>8
  <2> QED  BY <1>5, <2>2, <2>3
<1>10. s = w
  BY <1>5, <1>8, <1>9, SameText
<1> QED
  BY <1>3, <1>4, <1>5, <1>10

\* How long the text is after an action.
LEMMA LengthAfter ==
    ASSUME NEW t \in String, NEW a \in AnyAction, CanDo(t, a)
    PROVE  /\ Applied(t, a) \in String
           /\ a.type = "insert" => Len(Applied(t, a)) = Len(t) + Len(a.text)
           /\ a.type # "insert" => Len(t) = Len(Applied(t, a)) + Len(a.text)
<1>1. PICK s \in String : s = a.text
  BY DEF AnyAction
<1>2. PICK r : r = Applied(t, a)
  OBVIOUS
<1>3. CASE a.type = "insert"
  <2>1. PICK x \in String, y \in String : t = x \o y /\ Len(x) = a.pos
    <3>1. a.pos \in 0 .. Len(t)
      BY <1>3 DEF CanDo
    <3> QED  BY <3>1, Split
  <2>2. r = (x \o s) \o y
    <3>1. Inserted(x \o y, Len(x), s) = (x \o s) \o y
      BY InsertGives, Zenon
    <3> QED  BY <1>1, <1>2, <1>3, <2>1, <3>1 DEF Applied
  <2>3. PICK w \in String : w = x \o s /\ Len(w) = Len(x) + Len(s)
    BY JoinIs
  <2>4. r \in String /\ Len(r) = Len(w) + Len(y)
    BY <2>2, <2>3, JoinIs
  <2>5. Len(t) = Len(x) + Len(y) /\ Len(x) \in Nat /\ Len(y) \in Nat
    BY <2>1, JoinIs
  <2>6. Len(s) \in Nat
    BY DEF String
  <2>7. Len(r) = Len(t) + Len(s)
    BY <2>3, <2>4, <2>5, <2>6
  <2> QED  BY <1>1, <1>2, <1>3, <2>4, <2>7
<1>4. CASE a.type # "insert"
  <2>1. PICK x \in String, y \in String : t = (x \o s) \o y /\ a.pos = Len(x)
    BY <1>1, <1>4 DEF CanDo
  <2>2. r = x \o y
    <3>1. Deleted((x \o s) \o y, Len(x), Len(s)) = x \o y
      BY DeleteGives, Zenon
    <3> QED  BY <1>1, <1>2, <1>4, <2>1, <3>1 DEF Applied
  <2>3. PICK w \in String : w = x \o s /\ Len(w) = Len(x) + Len(s)
    BY JoinIs
  <2>4. r \in String /\ Len(r) = Len(x) + Len(y) /\ Len(x) \in Nat /\ Len(y) \in Nat
    BY <2>2, JoinIs
  <2>5. Len(t) = Len(w) + Len(y)
    BY <2>1, <2>3, JoinIs
  <2>6. Len(s) \in Nat
    BY DEF String
  <2>7. Len(t) = Len(r) + Len(s)
    BY <2>3, <2>4, <2>5, <2>6
  <2> QED  BY <1>1, <1>2, <1>4, <2>4, <2>7
<1> QED
  BY <1>3, <1>4

\* What an edit may be.
CanEdit(b, a) ==
    /\ a \in Action /\ a.id = b.made + 1
    /\ CanDo(b.text, a) /\ Applied(b.text, a) \in Text

LEMMA CanInsert ==
    ASSUME NEW b \in Buffer, b.made < MaxMade + 2, NEW pos \in 0 .. Len(b.text),
           NEW s \in String, s # <<>>, Len(b.text) + Len(s) <= MaxLength,
           NEW interactive \in BOOLEAN, NEW forward \in BOOLEAN
    PROVE  CanEdit(b, NewAction(b, "insert", pos, s, interactive, forward))
<1>1. PICK t \in Text : t = b.text
  BY DEF Buffer
<1>2. PICK a : a = NewAction(b, "insert", pos, s, interactive, forward)
  OBVIOUS
<1>3. PICK k \in Nat, l \in Nat : k = Len(t) /\ l = Len(s) /\ k <= MaxLength
  BY DEF Text, String
<1>4. MaxLength \in Nat /\ MaxMade \in Nat /\ b.made \in Nat
  BY UndoAssumption DEF Buffer
<1>5. pos \in 0 .. MaxLength /\ l <= MaxLength /\ b.made + 1 \in 1 .. MaxMade + 2
  BY <1>1, <1>3, <1>4
<1>6. s \in Text \ {<<>>}
  BY <1>3, <1>5 DEF Text, String
<1>7. /\ a.type = "insert" /\ a.id = b.made + 1 /\ a.pos = pos /\ a.text = s
      /\ a \in Action
  <2>1. Mergeable(s) \in BOOLEAN /\ (interactive /\ forward) \in BOOLEAN
    BY DEF Mergeable
  <2> QED  BY <1>2, <1>5, <1>6, <2>1 DEF NewAction, Action
<1>8. CanDo(t, a)
  BY <1>1, <1>7 DEF CanDo
<1>9. Applied(t, a) \in String /\ Len(Applied(t, a)) = Len(t) + Len(s)
  <2>1. t \in String /\ a \in AnyAction
    BY <1>7, ActionsAreActions DEF Text, String
  <2> QED  BY <1>7, <1>8, <2>1, LengthAfter
<1>10. Applied(t, a) \in Text
  BY <1>1, <1>9 DEF Text, String
<1> QED
  BY <1>1, <1>2, <1>7, <1>8, <1>10 DEF CanEdit

LEMMA CanDelete ==
    ASSUME NEW b \in Buffer, b.made < MaxMade + 2, NEW pos \in 0 .. Len(b.text),
           NEW s \in String, s # <<>>,
           \E x, y \in String : b.text = (x \o s) \o y /\ pos = Len(x),
           NEW interactive \in BOOLEAN, NEW forward \in BOOLEAN
    PROVE  CanEdit(b, NewAction(b, "delete", pos, s, interactive, forward))
<1>1. PICK t \in Text : t = b.text
  BY DEF Buffer
<1>2. PICK a : a = NewAction(b, "delete", pos, s, interactive, forward)
  OBVIOUS
<1>3. PICK k \in Nat, l \in Nat : k = Len(t) /\ l = Len(s) /\ k <= MaxLength
  BY DEF Text, String
<1>4. MaxLength \in Nat /\ MaxMade \in Nat /\ b.made \in Nat
  BY UndoAssumption DEF Buffer
<1>5. l <= k
  <2>1. PICK x \in String, y \in String : t = (x \o s) \o y
    BY <1>1
  <2>2. PICK w \in String : w = x \o s /\ Len(w) = Len(x) + Len(s)
    BY JoinIs
  <2>3. Len(t) = Len(w) + Len(y) /\ Len(y) \in Nat
    BY <2>1, <2>2, JoinIs
  <2>4. Len(x) \in Nat
    BY DEF String
  <2> QED  BY <1>3, <2>2, <2>3, <2>4
<1>a. pos \in 0 .. MaxLength /\ l <= MaxLength /\ b.made + 1 \in 1 .. MaxMade + 2
  BY <1>1, <1>3, <1>4, <1>5
<1>6. s \in Text \ {<<>>}
  BY <1>3, <1>a DEF Text, String
<1>7. /\ a.type = "delete" /\ a.id = b.made + 1 /\ a.pos = pos /\ a.text = s
      /\ a \in Action
  <2>1. Mergeable(s) \in BOOLEAN /\ (interactive /\ forward) \in BOOLEAN
    BY DEF Mergeable
  <2> QED  BY <1>2, <1>a, <1>6, <2>1 DEF NewAction, Action
<1>8. CanDo(t, a)
  BY <1>1, <1>7 DEF CanDo
<1>9. Applied(t, a) \in String /\ Len(t) = Len(Applied(t, a)) + Len(s)
  <2>1. t \in String /\ a \in AnyAction
    BY <1>7, ActionsAreActions DEF Text, String
  <2> QED  BY <1>7, <1>8, <2>1, LengthAfter
<1>10. Applied(t, a) \in Text
  <2>1. PICK r : r = Applied(t, a)
    OBVIOUS
  <2>2. r \in String /\ Len(r) \in Nat /\ k = Len(r) + l
    BY <1>3, <1>9, <2>1 DEF String
  <2>3. Len(r) <= MaxLength
    BY <1>3, <1>4, <2>2
  <2> QED  BY <2>1, <2>2, <2>3 DEF Text, String
<1> QED
  BY <1>1, <1>2, <1>7, <1>8, <1>10 DEF CanEdit

-----------------------------------------------------------------------------
(* The inductive invariant: there is a line of texts, and the stacks are   *)
(* what leads along it from the place where the text of the buffer is.     *)

HasLine(b, f) == \E A, T, n, c, B, D : OnLine(b, f, A, T, n, c, B, D)

\* What a user action goes on with, moo_undo_stack_add_action() finds on top.
GoesOn(b) == b.do_continue => b.undo_stack # <<>> /\ ~ b.new_group

UndoInv ==
    /\ HasLine(buffer, file)
    /\ GoesOn(buffer)
    /\ buffer.do_continue => continue_group > 0
    /\ continue_group \in 0 .. MaxNesting
    /\ file \in Text /\ untitled \in BOOLEAN

LEMMA HasType ==
    ASSUME NEW b, NEW f, HasLine(b, f)
    PROVE  b \in Buffer /\ b.text \in Text
BY DEF HasLine, OnLine, At, Buffer

\* A buffer on which nothing can be undone or redone.
LEMMA EmptyLine ==
    ASSUME NEW d \in Buffer, ~ d.modified, d.modifying_action = None,
           d.undo_stack = <<>>, d.redo_stack = <<>>
    PROVE  HasLine(d, d.text)
<1>1. PICK A, T, B : A = [i \in 1 .. 0 |-> 0] /\ T = [i \in 0 .. 0 |-> d.text]
                     /\ B = [i \in 0 .. 0 |-> 0]
  OBVIOUS
<1>2. Line(A, T, 0)
  <2>1. A \in [1 .. 0 -> Action] /\ \A i \in 1 .. 0 : FALSE
    BY <1>1
  <2>2. T \in [0 .. 0 -> Text]
    BY <1>1 DEF Buffer
  <2> QED  BY <2>1, <2>2 DEF Line
<1>3. UndoIs(<<>>, A, 0, B) /\ RedoIs(<<>>, A, 0, 0, B)
  <2>1. <<>> \in Seq(Group) /\ Len(<<>>) = 0 /\ \A i \in 1 .. 0 : FALSE
    OBVIOUS
  <2>2. B \in [0 .. 0 -> Nat] /\ B[0] = 0
    BY <1>1
  <2> QED  BY <2>1, <2>2 DEF UndoIs, RedoIs
<1>4. At(d, d.text, A, T, 0, 0)
  <2>1. T[0] = d.text
    BY <1>1
  <2> QED  BY <2>1 DEF At, Marked
<1>5. OnLine(d, d.text, A, T, 0, 0, B, B)
  <2>1. 0 \in 0 .. 0 /\ \A i \in 1 .. 0 : FALSE
    OBVIOUS
  <2> QED  BY <1>2, <1>3, <1>4, <2>1 DEF OnLine
<1> QED
  BY <1>5 DEF HasLine

\* Nothing but flags changed, or the text was saved.
Alike(b, d) == /\ d \in Buffer /\ d.text = b.text /\ d.made = b.made
               /\ d.undo_stack = b.undo_stack /\ d.redo_stack = b.redo_stack

LEMMA SameLine ==
    ASSUME NEW b, NEW f, NEW A, NEW T, NEW n, NEW c, NEW B, NEW D,
           OnLine(b, f, A, T, n, c, B, D), NEW d, Alike(b, d), NEW g,
           \/ d.modified = b.modified /\ d.modifying_action = b.modifying_action /\ g = f
           \/ ~ d.modified /\ d.modifying_action = None /\ g = b.text
    PROVE  OnLine(d, g, A, T, n, c, B, D)
<1>1. At(d, g, A, T, n, c)
  <2>1. CASE d.modified = b.modified /\ d.modifying_action = b.modifying_action /\ g = f
    BY <2>1 DEF OnLine, At, Marked, Alike
  <2>2. CASE ~ d.modified /\ d.modifying_action = None /\ g = b.text
    BY <2>2 DEF OnLine, At, Marked, Alike
  <2> QED  BY <2>1, <2>2
<1> QED
  BY <1>1 DEF OnLine, Alike

LEMMA EditKeeps ==
    ASSUME NEW b, NEW f, HasLine(b, f), NEW a, CanEdit(b, a), NEW inAction \in BOOLEAN
    PROVE  LET d == EditedBy(b, a, inAction) IN
           /\ HasLine(d, f) /\ d.undo_stack # <<>> /\ ~ d.new_group
           /\ d.do_continue = (b.do_continue \/ inAction)
           /\ d.made = b.made + 1 /\ d.text = Applied(b.text, a) /\ d.redo_stack = <<>>
<1>1. PICK A, T, n, c, B, D : OnLine(b, f, A, T, n, c, B, D)
  BY DEF HasLine
<1>2. PICK d : d = EditedBy(b, a, inAction)
  OBVIOUS
<1>3. EditMoved(b, d, f, T, c, B)
  <2>1. /\ a \in Action /\ a.id = b.made + 1 /\ CanDo(b.text, a) /\ Applied(b.text, a) \in Text
    BY DEF CanEdit
  <2> QED  BY <1>1, <1>2, <2>1, EditMoves
<1>4. HasLine(d, f) /\ d.undo_stack # <<>>
  BY <1>3 DEF EditMoved, HasLine, PastKept, PastPushed
<1> QED
  BY <1>2, <1>4 DEF EditedBy, CanEdit

LEMMA InitHolds == Init => UndoInv
<1> SUFFICES ASSUME Init PROVE UndoInv
  OBVIOUS
<1>1. MaxLength \in Nat /\ MaxMade \in Nat /\ MaxNesting \in Nat
  BY UndoAssumption
<1>2. <<>> \in Text
  BY <1>1 DEF Text
<1>3. buffer \in Buffer
  <2>1. 0 \in 0 .. MaxMade + 2 /\ <<>> \in Seq(Group)
    BY <1>1
  <2> QED  BY <1>2, <2>1 DEF Init, Buffer, None
<1>4. HasLine(buffer, file)
  <2>1. HasLine(buffer, buffer.text)
    BY <1>3, EmptyLine DEF Init
  <2> QED  BY <2>1 DEF Init
<1> QED
  BY <1>1, <1>2, <1>4 DEF Init, UndoInv, GoesOn

\* The edits there are.
Edits(b, d, inAction) == \E a : CanEdit(b, a) /\ d = EditedBy(b, a, inAction)

LEMMA InsertEdits ==
    ASSUME UndoInv, insert_text
    PROVE  Edits(buffer, buffer', continue_group > 0)
<1>1. PICK pos \in 0 .. Len(buffer.text), s \in Input :
          /\ Len(buffer.text) + Len(s) <= MaxLength
          /\ buffer' = Edited(buffer, "insert", pos, s, continue_group > 0, FALSE,
                              continue_group > 0)
  BY DEF insert_text
<1>2. buffer \in Buffer
  BY HasType DEF UndoInv
<1>3. s \in String /\ s # <<>>
  BY UndoAssumption DEF String, Char
<1>4. buffer.made < MaxMade + 2
  <2>1. buffer.made \in Nat /\ MaxMade \in Nat /\ buffer.made < MaxMade
    BY <1>2, UndoAssumption DEF Buffer, insert_text
  <2> QED  BY <2>1
<1>5. PICK a : a = NewAction(buffer, "insert", pos, s, continue_group > 0, FALSE)
  OBVIOUS
<1>6. CanEdit(buffer, a)
  <2>1. (continue_group > 0) \in BOOLEAN /\ FALSE \in BOOLEAN
    OBVIOUS
  <2>2. Len(buffer.text) + Len(s) <= MaxLength
    BY <1>1
  <2> QED  BY <1>2, <1>3, <1>4, <1>5, <2>1, <2>2, CanInsert
<1>7. buffer' = EditedBy(buffer, a, continue_group > 0)
  BY <1>1, <1>5, EditedIs
<1> QED
  BY <1>6, <1>7 DEF Edits

LEMMA DeleteEdits ==
    ASSUME UndoInv, delete_range
    PROVE  Edits(buffer, buffer', continue_group > 0)
<1>1. PICK pos \in 0 .. Len(buffer.text), end \in 0 .. Len(buffer.text), forward \in BOOLEAN :
          /\ pos < end
          /\ buffer' = Edited(buffer, "delete", pos, Slice(buffer.text, pos, end),
                              continue_group > 0, forward, continue_group > 0)
  BY DEF delete_range
<1>2. buffer \in Buffer /\ buffer.text \in String
  BY HasType DEF UndoInv, Text, String
<1>3. PICK s : s = Slice(buffer.text, pos, end)
  OBVIOUS
<1>4. Len(buffer.text) \in Nat
  BY <1>2 DEF String
<1>5. /\ s \in String /\ Len(s) = end - pos
      /\ \E x, y \in String : buffer.text = (x \o s) \o y /\ pos = Len(x)
  <2>1. pos <= end
    BY <1>1, <1>4
  <2> QED  BY <1>2, <1>3, <2>1, SliceSplits
<1>6. s # <<>>
  BY <1>1, <1>4, <1>5
<1>7. buffer.made < MaxMade + 2
  <2>1. buffer.made \in Nat /\ MaxMade \in Nat /\ buffer.made < MaxMade
    BY <1>2, UndoAssumption DEF Buffer, delete_range
  <2> QED  BY <2>1
<1>8. PICK a : a = NewAction(buffer, "delete", pos, s, continue_group > 0, forward)
  OBVIOUS
<1>9. CanEdit(buffer, a)
  <2>1. (continue_group > 0) \in BOOLEAN
    OBVIOUS
  <2> QED  BY <1>2, <1>5, <1>6, <1>7, <1>8, <2>1, CanDelete
<1>10. buffer' = EditedBy(buffer, a, continue_group > 0)
  BY <1>1, <1>3, <1>8, EditedIs
<1> QED
  BY <1>9, <1>10 DEF Edits

\* A reload deletes the text and inserts the new one.
EditsOrNot(b, d) == d = b \/ Edits(b, d, TRUE)

LEMMA NoText == <<>> \in String /\ Len(<<>>) = 0
<1>1. <<>> \in Seq(Char) /\ Len(<<>>) = 0
  OBVIOUS
<1> QED
  BY <1>1 DEF String

LEMMA DeletesAll ==
    ASSUME NEW b \in Buffer, b.made < MaxMade + 2, b.text # <<>>
    PROVE  LET d == Edited(b, "delete", 0, b.text, FALSE, FALSE, TRUE) IN
           Edits(b, d, TRUE) /\ d.text = <<>>
<1>1. PICK t \in String : t = b.text
  BY DEF Buffer, Text, String
<1>2. PICK e \in String : e = <<>>
  BY NoText
<1>3. (e \o t) \o e = t /\ Len(e) = 0 /\ e \o e = e
  BY <1>2, ConcatEmptySeq DEF String
<1>4. 0 \in 0 .. Len(b.text)
  BY <1>1 DEF String
<1>5. \E x, y \in String : b.text = (x \o t) \o y /\ 0 = Len(x)
  BY <1>1, <1>3
<1>6. PICK a : a = NewAction(b, "delete", 0, t, FALSE, FALSE)
  OBVIOUS
<1>7. CanEdit(b, a)
  BY <1>1, <1>4, <1>5, <1>6, CanDelete
<1>8. PICK d : d = EditedBy(b, a, TRUE)
  OBVIOUS
<1>9. d.text = <<>>
  <2>1. Deleted((e \o t) \o e, Len(e), Len(t)) = e \o e
    BY DeleteGives, Zenon
  <2>2. Deleted(t, 0, Len(t)) = <<>>
    BY <1>2, <1>3, <2>1
  <2>3. a.type = "delete" /\ a.pos = 0 /\ a.text = t
    BY <1>6 DEF NewAction
  <2> QED  BY <1>1, <1>8, <2>2, <2>3 DEF EditedBy, Applied
<1>10. Edited(b, "delete", 0, b.text, FALSE, FALSE, TRUE) = d
  BY <1>1, <1>6, <1>8, EditedIs
<1> QED
  BY <1>7, <1>8, <1>9, <1>10 DEF Edits

LEMMA InsertsAll ==
    ASSUME NEW b \in Buffer, b.made < MaxMade + 2, b.text = <<>>, NEW t \in File, t # <<>>
    PROVE  LET d == Edited(b, "insert", 0, t, FALSE, FALSE, TRUE) IN
           Edits(b, d, TRUE) /\ d.text = t
<1>1. PICK e \in String : e = <<>> /\ Len(e) = 0
  BY NoText, Zenon
<1>2. t \in String /\ Len(t) <= MaxLength /\ Len(t) \in Nat
  BY UndoAssumption DEF String, Char
<1>3. 0 \in 0 .. Len(b.text) /\ Len(b.text) + Len(t) <= MaxLength
  BY <1>1, <1>2
<1>4. PICK a : a = NewAction(b, "insert", 0, t, FALSE, FALSE)
  OBVIOUS
<1>5. CanEdit(b, a)
  BY <1>2, <1>3, <1>4, CanInsert
<1>6. PICK d : d = EditedBy(b, a, TRUE)
  OBVIOUS
<1>7. d.text = t
  <2>1. Inserted(e \o e, Len(e), t) = (e \o t) \o e
    BY <1>2, InsertGives, Zenon
  <2>2. e \o e = e /\ (e \o t) \o e = t
    BY <1>1, <1>2, ConcatEmptySeq DEF String
  <2>3. Inserted(b.text, 0, t) = t
    BY <1>1, <2>1, <2>2
  <2>4. a.type = "insert" /\ a.pos = 0 /\ a.text = t
    BY <1>4 DEF NewAction
  <2> QED  BY <1>6, <2>3, <2>4 DEF EditedBy, Applied
<1>8. Edited(b, "insert", 0, t, FALSE, FALSE, TRUE) = d
  BY <1>4, <1>6, EditedIs
<1> QED
  BY <1>5, <1>6, <1>7, <1>8 DEF Edits

LEMMA ReloadEdits ==
    ASSUME UndoInv, reload
    PROVE  \E emptied, loaded :
              /\ EditsOrNot(buffer, emptied) /\ EditsOrNot(emptied, loaded)
              /\ buffer' = Unmodified([loaded EXCEPT !.do_continue = FALSE])
              /\ file' = loaded.text
<1>1. PICK t \in File :
          LET emptied == IF buffer.text = <<>> THEN buffer
                         ELSE Edited(buffer, "delete", 0, buffer.text, FALSE, FALSE, TRUE)
              loaded  == IF t = <<>> THEN emptied
                         ELSE Edited(emptied, "insert", 0, t, FALSE, FALSE, TRUE) IN
          /\ file' = t
          /\ buffer' = Unmodified([loaded EXCEPT !.do_continue = FALSE])
  BY DEF reload
<1>2. buffer \in Buffer /\ HasLine(buffer, file)
  BY HasType DEF UndoInv
<1>3. buffer.made \in Nat /\ MaxMade \in Nat /\ buffer.made < MaxMade
  BY <1>2, UndoAssumption DEF Buffer, reload
<1>4. PICK emptied : emptied = IF buffer.text = <<>> THEN buffer
                     ELSE Edited(buffer, "delete", 0, buffer.text, FALSE, FALSE, TRUE)
  OBVIOUS
<1>5. /\ EditsOrNot(buffer, emptied) /\ emptied.text = <<>>
      /\ emptied \in Buffer /\ emptied.made < MaxMade + 2
  <2>1. CASE buffer.text = <<>>
    <3>1. emptied = buffer
      BY <1>4, <2>1
    <3> QED  BY <1>2, <1>3, <2>1, <3>1 DEF EditsOrNot
  <2>2. CASE buffer.text # <<>>
    <3>1. emptied = Edited(buffer, "delete", 0, buffer.text, FALSE, FALSE, TRUE)
      BY <1>4, <2>2
    <3>2. buffer.made < MaxMade + 2
      BY <1>3
    <3>3. Edits(buffer, emptied, TRUE) /\ emptied.text = <<>>
      BY <1>2, <2>2, <3>1, <3>2, DeletesAll
    <3>4. PICK a : CanEdit(buffer, a) /\ emptied = EditedBy(buffer, a, TRUE)
      BY <3>3 DEF Edits
    <3>5. HasLine(emptied, file) /\ emptied.made = buffer.made + 1
      BY <1>2, <3>4, EditKeeps
    <3>6. emptied \in Buffer
      BY <3>5, HasType
    <3>7. emptied.made < MaxMade + 2
      BY <1>3, <3>5
    <3> QED  BY <3>3, <3>6, <3>7 DEF EditsOrNot
  <2> QED  BY <2>1, <2>2
<1>6. PICK loaded : loaded = IF t = <<>> THEN emptied
                    ELSE Edited(emptied, "insert", 0, t, FALSE, FALSE, TRUE)
  OBVIOUS
<1>7. EditsOrNot(emptied, loaded) /\ loaded.text = t
  <2>1. CASE t = <<>>
    BY <1>5, <1>6, <2>1 DEF EditsOrNot
  <2>2. CASE t # <<>>
    <3>1. loaded = Edited(emptied, "insert", 0, t, FALSE, FALSE, TRUE)
      BY <1>6, <2>2
    <3> QED  BY <1>5, <2>2, <3>1, InsertsAll DEF EditsOrNot
  <2> QED  BY <2>1, <2>2
<1>8. file' = t /\ buffer' = Unmodified([loaded EXCEPT !.do_continue = FALSE])
  BY <1>1, <1>4, <1>6
<1> QED
  BY <1>5, <1>7, <1>8

LEMMA EditsKeep ==
    ASSUME NEW b, NEW f, HasLine(b, f), GoesOn(b), NEW d, NEW inAction \in BOOLEAN,
           Edits(b, d, inAction)
    PROVE  /\ HasLine(d, f) /\ d.undo_stack # <<>> /\ ~ d.new_group
           /\ d.do_continue = (b.do_continue \/ inAction) /\ d.redo_stack = <<>>
           /\ GoesOn(d)
<1>1. PICK a : CanEdit(b, a) /\ d = EditedBy(b, a, inAction)
  BY DEF Edits
<1> QED
  BY <1>1, EditKeeps DEF GoesOn

-----------------------------------------------------------------------------
(* Every step keeps the invariant. *)

LEMMA StepHolds == UndoInv /\ [Next]_vars => UndoInv'
<1> SUFFICES ASSUME UndoInv, [Next]_vars PROVE UndoInv'
  OBVIOUS
<1>a. PICK A, T, n, c, B, D : OnLine(buffer, file, A, T, n, c, B, D)
  BY DEF UndoInv, HasLine
<1>b. buffer \in Buffer /\ HasLine(buffer, file) /\ GoesOn(buffer)
      /\ buffer.text \in Text /\ buffer.do_continue \in BOOLEAN
  BY HasType DEF UndoInv, Buffer
<1>c. continue_group \in Nat /\ MaxNesting \in Nat
  BY UndoAssumption DEF UndoInv
<1>d. InMainLoop => ~ buffer.do_continue
  BY <1>b, <1>c DEF UndoInv, InMainLoop
<1>1. CASE begin_user_action
  <2>1. continue_group' \in 0 .. MaxNesting /\ continue_group' > 0
    BY <1>1, <1>c DEF begin_user_action
  <2> QED  BY <1>1, <2>1 DEF begin_user_action, UndoInv, GoesOn
<1>2. CASE end_user_action
  <2>1. continue_group' \in 0 .. MaxNesting
    BY <1>2, <1>c DEF end_user_action, UndoInv
  <2>2. PICK d : d = buffer'
    OBVIOUS
  <2>3. d = [buffer EXCEPT !.do_continue = @ /\ continue_group' > 0]
    BY <1>2, <2>2 DEF end_user_action
  <2>4. d.do_continue = (buffer.do_continue /\ continue_group' > 0)
    BY <1>b, <2>3 DEF Buffer
  <2>5. Alike(buffer, d) /\ d.new_group = buffer.new_group
        /\ d.modified = buffer.modified /\ d.modifying_action = buffer.modifying_action
    BY <1>b, <2>3 DEF Alike, Buffer
  <2>6. HasLine(d, file)
    <3>1. OnLine(d, file, A, T, n, c, B, D)
      BY <1>a, <2>5, SameLine
    <3> QED  BY <3>1 DEF HasLine
  <2>7. file' = file /\ untitled' = untitled
    BY <1>2 DEF end_user_action
  <2>8. GoesOn(d)
    BY <1>b, <2>4, <2>5 DEF GoesOn, Alike
  <2> QED  BY <2>1, <2>2, <2>4, <2>6, <2>7, <2>8 DEF UndoInv
<1>3. ASSUME Edits(buffer, buffer', continue_group > 0),
             UNCHANGED <<continue_group, file, untitled>>
      PROVE  UndoInv'
  <2>1. PICK d : d = buffer'
    OBVIOUS
  <2>2. CASE continue_group > 0
    <3>1. Edits(buffer, d, TRUE)
      <4>1. (continue_group > 0) = TRUE
        BY <2>2
      <4> QED  BY <1>3, <2>1, <4>1
    <3>2. HasLine(d, file) /\ GoesOn(d)
      BY <1>b, <3>1, EditsKeep
    <3> QED  BY <1>3, <2>1, <2>2, <3>2 DEF UndoInv
  <2>3. CASE ~(continue_group > 0)
    <3>1. Edits(buffer, d, FALSE)
      <4>1. (continue_group > 0) = FALSE
        BY <2>3
      <4> QED  BY <1>3, <2>1, <4>1
    <3>2. HasLine(d, file) /\ GoesOn(d) /\ d.do_continue = (buffer.do_continue \/ FALSE)
      BY <1>b, <3>1, EditsKeep
    <3>3. ~ d.do_continue
      BY <2>3, <3>2 DEF UndoInv
    <3> QED  BY <1>3, <2>1, <3>2, <3>3 DEF UndoInv
  <2> QED  BY <2>2, <2>3
<1>4. CASE insert_text
  BY <1>3, <1>4, InsertEdits DEF insert_text
<1>5. CASE delete_range
  BY <1>3, <1>5, DeleteEdits DEF delete_range
<1>6. CASE undo
  <2>1. /\ buffer.undo_stack # <<>> /\ InMainLoop
        /\ buffer' = GroupUndone(Popped(buffer), Head(buffer.undo_stack))
        /\ UNCHANGED <<continue_group, file, untitled>>
    BY <1>6 DEF undo, Popped
  <2>2. PICK d : d = GroupUndone(Popped(buffer), Head(buffer.undo_stack))
    OBVIOUS
  <2>3. /\ \E C, E : OnLine(d, file, A, T, n, B[1], C, E)
        /\ SameBut(buffer, d)
    BY <1>a, <2>1, <2>2, UndoMoves
  <2>4. HasLine(d, file) /\ ~ d.do_continue
    BY <1>d, <2>1, <2>3 DEF HasLine, SameBut
  <2> QED  BY <2>1, <2>2, <2>4 DEF UndoInv, GoesOn
<1>7. CASE redo
  <2>1. /\ buffer.redo_stack # <<>> /\ InMainLoop
        /\ buffer' = GroupRedone(Pushed(buffer), Head(buffer.redo_stack))
        /\ UNCHANGED <<continue_group, file, untitled>>
    BY <1>7 DEF redo, Pushed
  <2>2. PICK d : d = GroupRedone(Pushed(buffer), Head(buffer.redo_stack))
    OBVIOUS
  <2>3. /\ \E C, E : OnLine(d, file, A, T, n, D[1], C, E)
        /\ SameBut(buffer, d)
    BY <1>a, <2>1, <2>2, RedoMoves
  <2>4. HasLine(d, file) /\ ~ d.do_continue
    BY <1>d, <2>1, <2>3 DEF HasLine, SameBut
  <2> QED  BY <2>1, <2>2, <2>4 DEF UndoInv, GoesOn
<1>8. CASE save
  <2>1. PICK d : d = Unmodified(buffer)
    OBVIOUS
  <2>2. /\ Alike(buffer, d) /\ ~ d.modified /\ d.modifying_action = None
        /\ d.do_continue = buffer.do_continue
    <3>1. 0 \in 0 .. MaxMade + 2
      BY UndoAssumption
    <3> QED  BY <1>b, <2>1, <3>1 DEF Unmodified, Alike, Buffer, None
  <2>3. HasLine(d, buffer.text)
    <3>1. OnLine(d, buffer.text, A, T, n, c, B, D)
      BY <1>a, <2>2, SameLine
    <3> QED  BY <3>1 DEF HasLine
  <2>4. ~ d.do_continue
    BY <1>8, <1>d, <2>2 DEF save
  <2>5. buffer' = d /\ file' = buffer.text /\ continue_group' = continue_group /\ untitled' = FALSE
    BY <1>8, <2>1 DEF save
  <2> QED  BY <1>b, <2>3, <2>4, <2>5 DEF UndoInv, GoesOn
<1>9. CASE load_into_empty
  <2>1. PICK t \in File :
          /\ file' = t
          /\ buffer' = Unmodified([buffer EXCEPT !.text = t, !.undo_stack = <<>>,
                                       !.redo_stack = <<>>, !.new_group = FALSE])
    BY <1>9 DEF load_into_empty
  <2>2. t \in Text
    BY UndoAssumption DEF Text, Char
  <2>3. PICK d : d = Unmodified([buffer EXCEPT !.text = t, !.undo_stack = <<>>,
                                       !.redo_stack = <<>>, !.new_group = FALSE])
    OBVIOUS
  <2>4. /\ d \in Buffer /\ ~ d.modified /\ d.modifying_action = None
        /\ d.undo_stack = <<>> /\ d.redo_stack = <<>> /\ d.text = t
        /\ d.do_continue = buffer.do_continue
    <3>1. 0 \in 0 .. MaxMade + 2 /\ <<>> \in Seq(Group)
      BY UndoAssumption
    <3> QED  BY <1>b, <2>2, <2>3, <3>1 DEF Unmodified, Buffer, None
  <2>5. HasLine(d, t)
    BY <2>4, EmptyLine
  <2>6. ~ d.do_continue
    BY <1>9, <1>d, <2>4 DEF load_into_empty
  <2>7. buffer' = d /\ file' = t /\ continue_group' = continue_group /\ untitled' = FALSE
    BY <1>9, <2>1, <2>3 DEF load_into_empty
  <2> QED  BY <2>2, <2>5, <2>6, <2>7 DEF UndoInv, GoesOn
<1>10. CASE reload
  <2>1. PICK emptied, loaded :
              /\ EditsOrNot(buffer, emptied) /\ EditsOrNot(emptied, loaded)
              /\ buffer' = Unmodified([loaded EXCEPT !.do_continue = FALSE])
              /\ file' = loaded.text
    BY <1>10, ReloadEdits
  <2>2. HasLine(emptied, file) /\ GoesOn(emptied)
    BY <1>b, <2>1, EditsKeep DEF EditsOrNot
  <2>3. HasLine(loaded, file)
    BY <2>1, <2>2, EditsKeep DEF EditsOrNot
  <2>4. PICK d : d = Unmodified([loaded EXCEPT !.do_continue = FALSE])
    OBVIOUS
  <2>5. loaded \in Buffer /\ loaded.text \in Text
    BY <2>3, HasType
  <2>6. /\ Alike(loaded, d) /\ ~ d.modified /\ d.modifying_action = None
        /\ ~ d.do_continue
    <3>1. 0 \in 0 .. MaxMade + 2
      BY UndoAssumption
    <3> QED  BY <2>4, <2>5, <3>1 DEF Unmodified, Alike, Buffer, None
  <2>7. HasLine(d, loaded.text)
    BY <2>3, <2>6, SameLine DEF HasLine
  <2>8. buffer' = d /\ file' = loaded.text /\ continue_group' = continue_group
        /\ untitled' = untitled
    BY <1>10, <2>1, <2>4 DEF reload
  <2> QED  BY <2>5, <2>6, <2>7, <2>8 DEF UndoInv, GoesOn
<1>11. CASE UNCHANGED vars
  BY <1>11 DEF vars, UndoInv
<1> QED
  BY <1>1, <1>2, <1>4, <1>5, <1>6, <1>7, <1>8, <1>9, <1>10, <1>11 DEF Next

LEMMA UndoInvHolds == Spec => []UndoInv
BY InitHolds, StepHolds, PTL DEF Spec

-----------------------------------------------------------------------------
(* The properties *)

\* The stacks hold groups of actions, never an empty one, the flags have their values,
\* and moo_undo_stack_add_action() finds a group to go on with when a user action does.
THEOREM UndoTypeCorrect == Spec => []TypeOK
<1>1. UndoInv => TypeOK
  BY HasType DEF UndoInv, TypeOK, GoesOn
<1> QED
  BY <1>1, UndoInvHolds, PTL

\* A document not shown as modified has the text of its file, however its edits were
\* merged, grouped, undone and redone around its saves: unsaved text is never shown as
\* saved.
THEOREM UnmodifiedTextIsSaved == Spec => []UnmodifiedIsSaved
<1>1. UndoInv => UnmodifiedIsSaved
  BY DEF UndoInv, UnmodifiedIsSaved, HasLine, OnLine, At, Marked
<1> QED
  BY <1>1, UndoInvHolds, PTL

\* The first actions of a stack, up to the one with the identity id.
Found(s, X, id, j) ==
    /\ \E a \in Range(s) : a.id = id
    /\ (CHOOSE i \in DOMAIN s : s[i].id = id) = j
    /\ Len(SubSeq(s, 1, j)) = j
    /\ \A i \in 1 .. j : SubSeq(s, 1, j)[i] = X[i]

LEMMA FoundAt ==
    ASSUME NEW s, NEW l \in Nat, NEW X, IsFirst(s, Action, l, X), NEW j \in 1 .. l,
           NEW id, X[j].id = id, \A i \in 1 .. l : X[i].id = id => i = j
    PROVE  Found(s, X, id, j)
<1>1. /\ s \in Seq(Action) /\ Len(s) = l /\ DOMAIN s = 1 .. l
      /\ \A k \in 1 .. l : s[k] = X[k]
  BY DEF IsFirst
<1>2. s[j].id = id /\ \A i \in DOMAIN s : s[i].id = id => i = j
  BY <1>1
<1>3. (CHOOSE i \in DOMAIN s : s[i].id = id) = j
  BY <1>1, <1>2
<1>4. \E a \in Range(s) : a.id = id
  <2>1. s[j] \in Range(s)
    BY <1>1 DEF Range
  <2> QED  BY <1>2, <2>1
<1>5. /\ Len(SubSeq(s, 1, j)) = j
      /\ \A i \in 1 .. j : SubSeq(s, 1, j)[i] = s[i]
  <2>1. \A i \in 1 .. j : s[i] \in Action
    BY <1>1
  <2>2. /\ Len(SubSeq(s, 1, j)) = IF 1 <= j THEN j - 1 + 1 ELSE 0
        /\ \A i \in 1 .. j - 1 + 1 : SubSeq(s, 1, j)[i] = s[1 + i - 1]
    BY <2>1, SubSeqProperties
  <2>3. (IF 1 <= j THEN j - 1 + 1 ELSE 0) = j /\ j - 1 + 1 = j
        /\ \A i \in 1 .. j : 1 + i - 1 = i
    OBVIOUS
  <2> QED  BY <2>2, <2>3
<1>6. \A i \in 1 .. j : s[i] = X[i]
  BY <1>1
<1> QED
  BY <1>3, <1>4, <1>5, <1>6 DEF Found

\* modifying_action never points to an action that was freed or merged away, and
\* undoing or redoing up to it gives the text of the file: the place where
\* action_undo_or_redo() shows the text as unmodified is the right one.
THEOREM ModifierIsTheWayBack == Spec => []ModifierLeadsToFile
<1>1. UndoInv => ModifierLeadsToFile
  <2> SUFFICES ASSUME UndoInv, buffer.modifying_action # None
               PROVE  LET id == buffer.modifying_action IN
                      \/ /\ \E a \in Range(UndoOrder(buffer)) : a.id = id
                         /\ TextAt(TRUE, UndoOrder(buffer), id) = file
                      \/ /\ \E a \in Range(RedoOrder(buffer)) : a.id = id
                         /\ TextAt(FALSE, RedoOrder(buffer), id) = file
    BY DEF ModifierLeadsToFile
  <2>1. PICK A, T, n, c, B, D : OnLine(buffer, file, A, T, n, c, B, D)
    BY DEF UndoInv, HasLine
  <2>2. PICK id : id = buffer.modifying_action
    OBVIOUS
  <2>3. /\ Line(A, T, n) /\ n \in Nat /\ c \in 0 .. n
        /\ At(buffer, file, A, T, n, c)
        /\ UndoIs(buffer.undo_stack, A, c, B)
        /\ RedoIs(buffer.redo_stack, A, c, n, D)
        /\ \A i, j \in 1 .. n : A[i].id = A[j].id => i = j
    BY <2>1 DEF OnLine, Line
  <2>4. PICK k \in 1 .. n : /\ A[k].id = id
                            /\ k <= c => T[k - 1] = file
                            /\ c < k => T[k] = file
    BY <2>2, <2>3 DEF At, Marked
  <2>5. CASE k <= c
    <3>1. PICK s, X : s = UndoOrder(buffer) /\ X = [i \in 1 .. c |-> A[c - i + 1]]
      OBVIOUS
    <3>2. IsFirst(s, Action, c, X)
      <4>1. IsFirst(FlattenSeq(buffer.undo_stack), Action, c, [i \in 1 .. c |-> A[c - i + 1]])
        BY <2>3, UndoOrderIs, Zenon
      <4> QED  BY <3>1, <4>1 DEF UndoOrder
    <3>3. PICK j \in 1 .. c : j = c - k + 1 /\ c - j + 1 = k /\ c - j = k - 1
      <4>1. c - k + 1 \in 1 .. c /\ c - (c - k + 1) + 1 = k /\ c - (c - k + 1) = k - 1
        BY <2>3, <2>5
      <4> QED  BY <4>1
    <3>4. X[j].id = id
      BY <2>4, <3>1, <3>3
    <3>5. \A i \in 1 .. c : X[i].id = id => i = j
      <4> SUFFICES ASSUME NEW i \in 1 .. c, X[i].id = id PROVE i = j
        OBVIOUS
      <4>1. PICK e \in 1 .. n : e = c - i + 1
        BY <2>3
      <4>2. A[e].id = A[k].id
        BY <2>4, <3>1, <4>1
      <4>3. e = k
        BY <2>3, <4>2
      <4> QED  BY <2>3, <3>3, <4>1, <4>3
    <3>a. c \in Nat
      BY <2>3
    <3>6. /\ \E a \in Range(s) : a.id = id
          /\ (CHOOSE i \in DOMAIN s : s[i].id = id) = j
          /\ Len(SubSeq(s, 1, j)) = j
          /\ \A i \in 1 .. j : SubSeq(s, 1, j)[i] = X[i]
      <4>1. Found(s, X, id, j)
        BY <3>2, <3>4, <3>5, <3>a, FoundAt, Zenon
      <4> QED  BY <4>1, Zenon DEF Found
    <3>7. PICK g : g = SubSeq(s, 1, j)
      OBVIOUS
    <3>8. \A i \in 1 .. j : g[i] = A[c - i + 1]
      <4>1. \A i \in 1 .. j : i \in 1 .. c
        BY <2>3
      <4> QED  BY <3>1, <3>6, <3>7, <4>1
    <3>9. Len(g) = j /\ j \in 0 .. c
      BY <3>6, <3>7
    <3>10. At(Walked(TRUE, buffer, g), file, A, T, n, c - j)
      BY <2>3, <3>8, <3>9, WalkBack, Zenon
    <3>11. TextAt(TRUE, s, id) = T[k - 1]
      BY <3>3, <3>6, <3>7, <3>10 DEF TextAt, At
    <3> QED  BY <2>2, <2>4, <2>5, <3>1, <3>6, <3>11
  <2>6. CASE ~(k <= c)
    <3>1. PICK s, X : s = RedoOrder(buffer) /\ X = [i \in 1 .. n - c |-> A[c + i]]
      OBVIOUS
    <3>2. IsFirst(s, Action, n - c, X)
      <4>1. IsFirst(RedoOrder(buffer), Action, n - c, [i \in 1 .. n - c |-> A[c + i]])
        BY <2>3, RedoOrderIs, ZenonT(60)
      <4> QED  BY <3>1, <4>1
    <3>3. PICK j \in 1 .. n - c : j = k - c /\ c + j = k
      <4>1. k - c \in 1 .. n - c /\ c + (k - c) = k
        BY <2>3, <2>6
      <4> QED  BY <4>1
    <3>4. X[j].id = id
      BY <2>4, <3>1, <3>3
    <3>5. \A i \in 1 .. n - c : X[i].id = id => i = j
      <4> SUFFICES ASSUME NEW i \in 1 .. n - c, X[i].id = id PROVE i = j
        OBVIOUS
      <4>1. PICK e \in 1 .. n : e = c + i
        BY <2>3
      <4>2. A[e].id = A[k].id
        BY <2>4, <3>1, <4>1
      <4>3. e = k
        BY <2>3, <4>2
      <4> QED  BY <2>3, <3>3, <4>1, <4>3
    <3>a. n - c \in Nat
      BY <2>3
    <3>6. /\ \E a \in Range(s) : a.id = id
          /\ (CHOOSE i \in DOMAIN s : s[i].id = id) = j
          /\ Len(SubSeq(s, 1, j)) = j
          /\ \A i \in 1 .. j : SubSeq(s, 1, j)[i] = X[i]
      <4>1. Found(s, X, id, j)
        BY <3>2, <3>4, <3>5, <3>a, FoundAt, Zenon
      <4> QED  BY <4>1, Zenon DEF Found
    <3>7. PICK g : g = SubSeq(s, 1, j)
      OBVIOUS
    <3>8. \A i \in 1 .. j : g[i] = A[c + i]
      <4>1. \A i \in 1 .. j : i \in 1 .. n - c
        BY <2>3
      <4> QED  BY <3>1, <3>6, <3>7, <4>1
    <3>9. Len(g) = j /\ j \in 0 .. n - c
      BY <3>6, <3>7
    <3>10. At(Walked(FALSE, buffer, g), file, A, T, n, c + j)
      BY <2>3, <3>8, <3>9, WalkOn, Zenon
    <3>11. TextAt(FALSE, s, id) = T[k]
      BY <3>3, <3>6, <3>7, <3>10 DEF TextAt, At
    <3>12. T[k] = file
      <4>1. c < k
        BY <2>3, <2>6
      <4> QED  BY <2>4, <4>1
    <3> QED  BY <2>2, <3>1, <3>6, <3>11, <3>12
  <2> QED  BY <2>5, <2>6
<1> QED
  BY <1>1, UndoInvHolds, PTL

-----------------------------------------------------------------------------
(* The refinement of UndoHistory: its past and future are the texts at the *)
(* places where the groups begin and end.                                  *)

\* TextsAlong() is what a walk passes.
Along(u, b, gs) ==
    \E w : /\ w[0] = b
           /\ \A i \in 1 .. Len(gs) : w[i] = Walked(u, w[i - 1], gs[i])
           /\ TextsAlong(u, b, gs) = [i \in DOMAIN gs |-> w[i].text]

LEMMA AlongIs ==
    ASSUME NEW u, NEW b, NEW gs, Len(gs) \in Nat
    PROVE  Along(u, b, gs)
<1> DEFINE After(f, i) == IF i = 0 THEN b ELSE Walked(u, f[i - 1], gs[i])
           F(n, f) == f = [i \in 0 .. n |-> After(f, i)]
           G == {n \in Nat : \E f : F(n, f)}
<1>1. 0 \in G
  <2> DEFINE f == [i \in 0 .. 0 |-> b]
  <2>1. f = [i \in 0 .. 0 |-> After(f, i)]
    OBVIOUS
  <2> QED  BY <2>1
<1>2. ASSUME NEW n \in Nat, n \in G PROVE n + 1 \in G
  <2>1. PICK f : F(n, f)
    BY <1>2
  <2> DEFINE h == [i \in 0 .. n + 1 |-> IF i <= n THEN f[i] ELSE Walked(u, f[n], gs[n + 1])]
  <2>2. \A i \in 0 .. n : h[i] = f[i] /\ f[i] = After(f, i)
    BY <2>1
  <2>3. h[n + 1] = Walked(u, f[n], gs[n + 1])
    OBVIOUS
  <2>4. \A i \in 0 .. n + 1 : h[i] = After(h, i)
    <3> SUFFICES ASSUME NEW i \in 0 .. n + 1 PROVE h[i] = After(h, i)
      OBVIOUS
    <3>1. CASE i = 0
      <4>1. 0 \in 0 .. n
        OBVIOUS
      <4> QED  BY <2>2, <3>1, <4>1
    <3>2. CASE i \in 1 .. n
      <4>1. h[i - 1] = f[i - 1]
        BY <2>2, <3>2
      <4> QED  BY <2>2, <3>2, <4>1
    <3>3. CASE i = n + 1
      <4>1. h[n] = f[n] /\ i - 1 = n /\ i # 0
        BY <2>2, <3>3
      <4> QED  BY <2>3, <3>3, <4>1
    <3> QED  BY <3>1, <3>2, <3>3
  <2>5. F(n + 1, h)
    BY <2>4
  <2>6. \E fn : F(n + 1, fn)
    BY <2>5
  <2> HIDE DEF F
  <2> QED  BY <2>6
<1>3. Len(gs) \in G
  <2>1. 0 .. Len(gs) \subseteq G
    BY <1>1, <1>2, Induction
  <2> QED  BY <2>1
<1> DEFINE after == CHOOSE f : F(Len(gs), f)
<1>4. F(Len(gs), after)
  BY <1>3, Zenon
<1>5. TextsAlong(u, b, gs) = [i \in DOMAIN gs |-> after[i].text]
  BY Zenon DEF TextsAlong
<1>6. after[0] = b /\ \A i \in 1 .. Len(gs) : after[i] = Walked(u, after[i - 1], gs[i])
  <2>1. \A i \in 0 .. Len(gs) : after[i] = After(after, i)
    BY <1>4, Zenon
  <2> QED  BY <2>1
<1> QED
  BY <1>5, <1>6, Zenon DEF Along

\* The texts at some places.
Texts(T, B, k) == [i \in 1 .. k |-> T[B[i]]]

LEMMA PastIs ==
    ASSUME NEW b, NEW f, NEW A, NEW T, NEW n, NEW c, NEW B, NEW D,
           OnLine(b, f, A, T, n, c, B, D)
    PROVE  Past(b) = Texts(T, B, Len(b.undo_stack))
<1>1. PICK us : us = b.undo_stack
  OBVIOUS
<1>2. /\ Line(A, T, n) /\ n \in Nat /\ c \in 0 .. n
      /\ At(b, f, A, T, n, c) /\ UndoIs(us, A, c, B)
  BY <1>1 DEF OnLine, Line
<1>3. PICK k \in Nat : k = Len(us) /\ DOMAIN us = 1 .. k
  BY <1>2 DEF UndoIs
<1>4. /\ B[0] = c
      /\ \A i \in 1 .. k : /\ us[i] \in Group
                           /\ B[i - 1] = B[i] + Len(us[i])
                           /\ \A j \in 1 .. Len(us[i]) : us[i][j] = A[B[i - 1] - j + 1]
  BY <1>2, <1>3 DEF UndoIs
<1>5. c \in Nat /\ \A i \in 0 .. k : B[i] \in 0 .. c
  BY <1>2, <1>3, UndoWithin, Zenon DEF UndoLimit
<1>6. PICK w : /\ w[0] = b
               /\ \A i \in 1 .. k : w[i] = Walked(TRUE, w[i - 1], us[i])
               /\ Past(b) = [i \in 1 .. k |-> w[i].text]
  <2>1. Along(TRUE, b, us)
    BY <1>3, AlongIs, Zenon
  <2> QED  BY <1>1, <1>3, <2>1 DEF Along, Past
<1> DEFINE Good(i) == At(w[i], f, A, T, n, B[i])
           G == {i \in 0 .. k : Good(i)}
<1>7. 0 \in G
  BY <1>2, <1>4, <1>6
<1>8. \A i \in 0 .. k - 1 : i \in G => i + 1 \in G
  <2> SUFFICES ASSUME NEW i \in 0 .. k - 1, i \in G PROVE i + 1 \in G
    OBVIOUS
  <2>1. i + 1 \in 1 .. k /\ (i + 1) - 1 = i /\ i \in 0 .. k /\ i + 1 \in 0 .. k
    BY <1>3
  <2>2. PICK g \in Group : g = us[i + 1]
    BY <1>4, <2>1
  <2>3. PICK l \in Nat : l = Len(g)
    BY GroupLength
  <2>4. w[i + 1] = Walked(TRUE, w[i], g)
    BY <1>6, <2>1, <2>2
  <2>5. PICK p \in 0 .. c : p = B[i]
    BY <1>5, <2>1
  <2>6. B[i + 1] \in 0 .. c /\ p = B[i + 1] + l /\ \A j \in 1 .. l : g[j] = A[p - j + 1]
    <3>1. /\ B[i] = B[i + 1] + Len(us[i + 1])
          /\ \A j \in 1 .. Len(us[i + 1]) : us[i + 1][j] = A[B[i] - j + 1]
      BY <1>4, <2>1
    <3> QED  BY <1>5, <2>1, <2>2, <2>3, <2>5, <3>1
  <2>7. l \in 0 .. p /\ p - l = B[i + 1] /\ p \in 0 .. n
    BY <1>2, <1>5, <2>5, <2>6
  <2>8. At(w[i], f, A, T, n, p)
    BY <2>5
  <2>9. At(Walked(TRUE, w[i], g), f, A, T, n, p - l)
    <3>1. Len(g) = l /\ \A j \in 1 .. l : g[j] = A[p - j + 1]
      BY <2>3, <2>6
    <3> QED  BY <1>2, <2>7, <2>8, <3>1, WalkBack, Zenon
  <2> QED  BY <2>1, <2>4, <2>7, <2>9
<1>9. 0 .. k \subseteq G
  <2> HIDE DEF G
  <2> QED  BY <1>7, <1>8, Induction
<1>10. \A i \in 1 .. k : w[i].text = T[B[i]]
  <2> SUFFICES ASSUME NEW i \in 1 .. k PROVE w[i].text = T[B[i]]
    OBVIOUS
  <2>1. i \in 0 .. k
    BY <1>3
  <2>2. At(w[i], f, A, T, n, B[i])
    BY <1>9, <2>1
  <2> QED  BY <2>2 DEF At
<1> QED
  BY <1>1, <1>3, <1>6, <1>10 DEF Texts

LEMMA FutureIs ==
    ASSUME NEW b, NEW f, NEW A, NEW T, NEW n, NEW c, NEW B, NEW D,
           OnLine(b, f, A, T, n, c, B, D)
    PROVE  Future(b) = Texts(T, D, Len(b.redo_stack))
<1>1. PICK rs : rs = b.redo_stack
  OBVIOUS
<1>2. /\ Line(A, T, n) /\ n \in Nat /\ c \in 0 .. n
      /\ At(b, f, A, T, n, c) /\ RedoIs(rs, A, c, n, D)
  BY <1>1 DEF OnLine, Line
<1>3. PICK k \in Nat : k = Len(rs) /\ DOMAIN rs = 1 .. k
  BY <1>2 DEF RedoIs
<1>4. /\ D[0] = c
      /\ \A i \in 1 .. k : /\ rs[i] \in Group
                           /\ D[i] = D[i - 1] + Len(rs[i])
                           /\ \A j \in 1 .. Len(rs[i]) : rs[i][j] = A[D[i] - j + 1]
  BY <1>2, <1>3 DEF RedoIs
<1>5. c \in Nat /\ \A i \in 0 .. k : D[i] \in c .. n
  BY <1>2, <1>3, RedoWithin, Zenon DEF RedoLimit
<1>a. PICK gs : gs = RedoGroups(b)
  OBVIOUS
<1>b. gs = [i \in 1 .. k |-> Reverse(rs[i])]
  BY <1>1, <1>3, <1>a DEF RedoGroups
<1>c. Len(gs) = k /\ DOMAIN gs = 1 .. k
  BY <1>b
<1>6. PICK w : /\ w[0] = b
               /\ \A i \in 1 .. k : w[i] = Walked(FALSE, w[i - 1], gs[i])
               /\ Future(b) = [i \in 1 .. k |-> w[i].text]
  <2>1. Along(FALSE, b, gs)
    BY <1>3, <1>c, AlongIs, Zenon
  <2> QED  BY <1>a, <1>c, <2>1 DEF Along, Future
<1> DEFINE Good(i) == At(w[i], f, A, T, n, D[i])
           G == {i \in 0 .. k : Good(i)}
<1>7. 0 \in G
  BY <1>2, <1>4, <1>6
<1>8. \A i \in 0 .. k - 1 : i \in G => i + 1 \in G
  <2> SUFFICES ASSUME NEW i \in 0 .. k - 1, i \in G PROVE i + 1 \in G
    OBVIOUS
  <2>1. i + 1 \in 1 .. k /\ (i + 1) - 1 = i /\ i \in 0 .. k /\ i + 1 \in 0 .. k
    BY <1>3
  <2>2. PICK g \in Group : g = rs[i + 1]
    BY <1>4, <2>1
  <2>3. PICK l \in Nat : l = Len(g)
    BY GroupLength
  <2>4. PICK h : h = Reverse(g)
    OBVIOUS
  <2>5. Len(h) = l /\ \A j \in 1 .. l : h[j] = g[l - j + 1]
    <3>1. g \in Seq(Action)
      BY GroupLength
    <3> QED  BY <2>3, <2>4, <3>1, ReverseIs
  <2>6. w[i + 1] = Walked(FALSE, w[i], h)
    BY <1>6, <1>b, <2>1, <2>2, <2>4
  <2>7. PICK p \in c .. n, q \in c .. n : p = D[i] /\ q = D[i + 1]
    BY <1>5, <2>1
  <2>8. q = p + l /\ \A j \in 1 .. l : g[j] = A[q - j + 1]
    <3>1. /\ D[i + 1] = D[i] + Len(rs[i + 1])
          /\ \A j \in 1 .. Len(rs[i + 1]) : rs[i + 1][j] = A[D[i + 1] - j + 1]
      BY <1>4, <2>1
    <3> QED  BY <2>2, <2>3, <2>7, <3>1
  <2>9. \A j \in 1 .. l : h[j] = A[p + j]
    <3> SUFFICES ASSUME NEW j \in 1 .. l PROVE h[j] = A[p + j]
      OBVIOUS
    <3>1. PICK e \in 1 .. l : e = l - j + 1
      OBVIOUS
    <3>2. q - e + 1 = p + j
      <4>1. p \in Nat /\ q = p + l
        BY <1>2, <1>5, <2>7, <2>8
      <4> QED  BY <3>1, <4>1
    <3> QED  BY <2>5, <2>8, <3>1, <3>2
  <2>10. p \in 0 .. n /\ l \in 0 .. n - p
    <3>1. p \in Nat /\ q \in Nat /\ q = p + l /\ q <= n /\ p <= n
      BY <1>2, <1>5, <2>7, <2>8
    <3> QED  BY <1>2, <3>1
  <2>11. At(w[i], f, A, T, n, p)
    BY <2>7
  <2>12. At(Walked(FALSE, w[i], h), f, A, T, n, p + l)
    BY <1>2, <2>5, <2>9, <2>10, <2>11, WalkOn, Zenon
  <2> QED  BY <2>1, <2>6, <2>7, <2>8, <2>12
<1>9. 0 .. k \subseteq G
  <2> HIDE DEF G
  <2> QED  BY <1>7, <1>8, Induction
<1>10. \A i \in 1 .. k : w[i].text = T[D[i]]
  <2> SUFFICES ASSUME NEW i \in 1 .. k PROVE w[i].text = T[D[i]]
    OBVIOUS
  <2>1. i \in 0 .. k
    BY <1>3
  <2>2. At(w[i], f, A, T, n, D[i])
    BY <1>9, <2>1
  <2> QED  BY <2>2 DEF At
<1> QED
  BY <1>1, <1>3, <1>6, <1>10 DEF Texts

LEMMA TextsAre ==
    ASSUME NEW T, NEW B, NEW k \in Nat
    PROVE  /\ \A S : (\A i \in 1 .. k : T[B[i]] \in S) => Texts(T, B, k) \in Seq(S)
           /\ Len(Texts(T, B, k)) = k
           /\ \A i \in 1 .. k : Texts(T, B, k)[i] = T[B[i]]
           /\ Texts(T, B, k) = <<>> <=> k = 0
<1>1. PICK s : s = Texts(T, B, k)
  OBVIOUS
<1>2. s = [i \in 1 .. k |-> T[B[i]]]
  BY <1>1 DEF Texts
<1>3. ASSUME NEW S, \A i \in 1 .. k : T[B[i]] \in S PROVE s \in Seq(S)
  BY <1>2, <1>3
<1>4. Len(s) = k /\ \A i \in 1 .. k : s[i] = T[B[i]]
  BY <1>2
<1>5. s = <<>> <=> k = 0
  <2>1. CASE k = 0
    <3>1. s \in Seq({}) /\ Len(s) = 0
      BY <1>3, <1>4, <2>1
    <3> QED  BY <2>1, <3>1, EmptySeq
  <2>2. CASE k # 0
    BY <1>4, <2>2
  <2> QED  BY <2>1, <2>2
<1> QED
  BY <1>1, <1>3, <1>4, <1>5

\* The same texts at the same places ...
LEMMA TextsKept ==
    ASSUME NEW T, NEW T2, NEW B, NEW B2, NEW k \in Nat,
           \A i \in 1 .. k : T2[B2[i]] = T[B[i]]
    PROVE  Texts(T2, B2, k) = Texts(T, B, k)
BY DEF Texts

\* ... with one before them ...
Put(x, s) == <<x>> \o s

OneMore(T, T2, B, B2, k) == \A i \in 1 .. k : T2[B2[i + 1]] = T[B[i]]

LEMMA TextsPushed ==
    ASSUME NEW T, NEW T2, NEW B, NEW B2, NEW k \in Nat, OneMore(T, T2, B, B2, k)
    PROVE  Texts(T2, B2, k + 1) = Put(T2[B2[1]], Texts(T, B, k))
<1>h. \A i \in 1 .. k : T2[B2[i + 1]] = T[B[i]]
  BY DEF OneMore
<1>x. PICK x : x = T2[B2[1]]
  OBVIOUS
<1> DEFINE S == {x} \cup {T[B[i]] : i \in 1 .. k}
<1>1. PICK s : s = Texts(T, B, k)
  OBVIOUS
<1>2. s \in Seq(S) /\ Len(s) = k /\ \A i \in 1 .. k : s[i] = T[B[i]]
  <2>1. \A i \in 1 .. k : T[B[i]] \in S
    OBVIOUS
  <2> HIDE DEF S
  <2> QED  BY <1>1, <2>1, TextsAre
<1>3. x \in S
  OBVIOUS
<1> HIDE DEF S
<1>4. PICK t : t = <<x>> \o s
  OBVIOUS
<1>5. t \in Seq(S) /\ Len(t) = k + 1 /\ t[1] = x /\ \A i \in 1 .. k : t[i + 1] = s[i]
  BY <1>2, <1>3, <1>4, Push
<1>6. PICK u : u = Texts(T2, B2, k + 1)
  OBVIOUS
<1>7. \A i \in 1 .. k + 1 : T2[B2[i]] = t[i]
  <2> SUFFICES ASSUME NEW i \in 1 .. k + 1 PROVE T2[B2[i]] = t[i]
    OBVIOUS
  <2>1. CASE i = 1
    BY <1>x, <1>5, <2>1
  <2>2. CASE i # 1
    <3>1. PICK j \in 1 .. k : i = j + 1
      <4>1. i - 1 \in 1 .. k /\ i = (i - 1) + 1
        BY <2>2
      <4> QED  BY <4>1
    <3> QED  BY <1>h, <1>2, <1>5, <3>1
  <2> QED  BY <2>1, <2>2
<1>8. \A i \in 1 .. k + 1 : t[i] \in S
  BY <1>5
<1>9. k + 1 \in Nat
  OBVIOUS
<1>10. u \in Seq(S) /\ Len(u) = k + 1 /\ \A i \in 1 .. k + 1 : u[i] = t[i]
  <2>1. \A i \in 1 .. k + 1 : T2[B2[i]] \in S
    BY <1>7, <1>8
  <2> QED  BY <1>6, <1>7, <1>9, <2>1, TextsAre
<1>11. u = t
  BY <1>5, <1>10, SeqEqual
<1> QED
  BY <1>x, <1>1, <1>4, <1>6, <1>11 DEF Put

\* ... and without their first.
LEMMA TextsPopped ==
    ASSUME NEW T, NEW B, NEW k \in Nat, k # 0
    PROVE  /\ Head(Texts(T, B, k)) = T[B[1]]
           /\ Tail(Texts(T, B, k)) = Texts(T, Later(B, k), k - 1)
<1> DEFINE S == {T[B[i]] : i \in 1 .. k}
<1>1. PICK s : s = Texts(T, B, k)
  OBVIOUS
<1>2. s \in Seq(S) /\ Len(s) = k /\ \A i \in 1 .. k : s[i] = T[B[i]]
  <2>1. \A i \in 1 .. k : T[B[i]] \in S
    OBVIOUS
  <2> HIDE DEF S
  <2> QED  BY <1>1, <2>1, TextsAre
<1> HIDE DEF S
<1>3. s # <<>>
  BY <1>1, TextsAre
<1>4. /\ Head(s) = s[1] /\ Tail(s) \in Seq(S) /\ Len(Tail(s)) = k - 1
      /\ \A i \in 1 .. k - 1 : Tail(s)[i] = s[i + 1]
  BY <1>2, <1>3, Pop
<1>5. PICK m \in Nat : m = k - 1
  OBVIOUS
<1>6. PICK L : L = Later(B, k)
  OBVIOUS
<1>7. \A i \in 1 .. m : T[L[i]] = T[B[i + 1]] /\ Tail(s)[i] = T[B[i + 1]]
  <2> SUFFICES ASSUME NEW i \in 1 .. m
               PROVE  T[L[i]] = T[B[i + 1]] /\ Tail(s)[i] = T[B[i + 1]]
    OBVIOUS
  <2>1. i \in 0 .. k - 1 /\ i \in 1 .. k - 1 /\ i + 1 \in 1 .. k
    BY <1>5
  <2> QED  BY <1>2, <1>4, <1>6, <2>1 DEF Later
<1>8. PICK u : u = Texts(T, L, m)
  OBVIOUS
<1>9. u \in Seq(S) /\ Len(u) = m /\ \A i \in 1 .. m : u[i] = Tail(s)[i]
  <2>1. \A i \in 1 .. m : Tail(s)[i] \in S
    BY <1>4, <1>5
  <2>2. \A i \in 1 .. m : T[L[i]] \in S
    BY <1>7, <2>1
  <2>3. u \in Seq(S) /\ Len(u) = m /\ \A i \in 1 .. m : u[i] = T[L[i]]
    BY <1>5, <1>8, <2>2, TextsAre
  <2> QED  BY <1>7, <2>3
<1>10. u = Tail(s)
  BY <1>4, <1>5, <1>9, SeqEqual
<1>11. s[1] = T[B[1]]
  <2>1. 1 \in 1 .. k
    OBVIOUS
  <2> QED  BY <1>2, <2>1
<1> QED
  BY <1>1, <1>4, <1>5, <1>6, <1>8, <1>10, <1>11

\* What an edit does to what can be undone, and redone.
Changes(b, d) ==
    /\ \/ Past(d) = Past(b) /\ Past(b) # <<>>
       \/ Past(d) = <<b.text>> \o Past(b) /\ ~ b.do_continue
    /\ Future(d) = <<>>

LEMMA EditChanges ==
    ASSUME NEW b, NEW f, HasLine(b, f), GoesOn(b), NEW d, NEW inAction \in BOOLEAN,
           Edits(b, d, inAction)
    PROVE  Changes(b, d)
<1>1. PICK A, T, n, c, B, D : OnLine(b, f, A, T, n, c, B, D)
  BY DEF HasLine
<1>2. PICK a : CanEdit(b, a) /\ d = EditedBy(b, a, inAction)
  BY DEF Edits
<1>3. EditMoved(b, d, f, T, c, B)
  BY <1>1, <1>2, EditMoves DEF CanEdit
<1>4. PICK A2, T2, n2, B2, D2 :
       /\ OnLine(d, f, A2, T2, n2, n2, B2, D2)
       /\ \/ PastKept(b.undo_stack, d.undo_stack, T, T2, B, B2)
          \/ /\ b.do_continue => StartsGroup(b)
             /\ PastPushed(b.undo_stack, d.undo_stack, T, T2, B, B2, c)
  BY <1>3 DEF EditMoved
<1>5. PICK k \in Nat : k = Len(b.undo_stack) /\ (b.undo_stack = <<>> <=> k = 0)
  <2>1. b.undo_stack \in Seq(Group)
    BY <1>1 DEF OnLine, UndoIs
  <2> QED  BY <2>1, EmptySeq
<1>6. /\ Past(b) = Texts(T, B, k)
      /\ Past(d) = Texts(T2, B2, Len(d.undo_stack))
      /\ Future(d) = Texts(T2, D2, Len(d.redo_stack))
  BY <1>1, <1>4, <1>5, PastIs, FutureIs
<1>7. Future(d) = <<>>
  <2>1. Len(d.redo_stack) = 0
    BY <1>2 DEF EditedBy
  <2> QED  BY <1>6, <2>1, TextsAre
<1>8. CASE PastKept(b.undo_stack, d.undo_stack, T, T2, B, B2)
  <2>1. k # 0 /\ Len(d.undo_stack) = k /\ \A i \in 1 .. k : T2[B2[i]] = T[B[i]]
    BY <1>5, <1>8 DEF PastKept
  <2>2. Past(d) = Past(b)
    BY <1>5, <1>6, <2>1, TextsKept
  <2>3. Past(b) # <<>>
    BY <1>5, <1>6, <2>1, TextsAre
  <2> QED  BY <1>7, <2>2, <2>3 DEF Changes
<1>9. CASE /\ b.do_continue => StartsGroup(b)
           /\ PastPushed(b.undo_stack, d.undo_stack, T, T2, B, B2, c)
  <2>1. b.text = T[c]
    BY <1>1 DEF OnLine, At
  <2>2. /\ Len(d.undo_stack) = k + 1 /\ T2[B2[1]] = b.text
        /\ \A i \in 1 .. k : T2[B2[i + 1]] = T[B[i]]
    BY <1>5, <1>9, <2>1 DEF PastPushed
  <2>3. Past(d) = <<b.text>> \o Past(b)
    <3>1. k \in Nat
      BY <1>5
    <3>2. OneMore(T, T2, B, B2, k)
      BY <2>2 DEF OneMore
    <3>3. Texts(T2, B2, k + 1) = Put(T2[B2[1]], Texts(T, B, k))
      BY <3>1, <3>2, TextsPushed, SMT
    <3> QED  BY <1>6, <2>2, <3>3 DEF Put
  <2>4. ~ b.do_continue
    BY <1>9 DEF GoesOn, StartsGroup
  <2> QED  BY <1>7, <2>3, <2>4 DEF Changes
<1> QED
  BY <1>4, <1>8, <1>9

\* A reload is one change, of one edit or two, or none.
LEMMA ReloadChanges ==
    ASSUME NEW b, NEW f, HasLine(b, f), GoesOn(b), NEW e, NEW d,
           EditsOrNot(b, e), EditsOrNot(e, d)
    PROVE  /\ HasLine(d, f)
           /\ d = b \/ Changes(b, d)
<1>1. CASE e = b
  <2>1. CASE d = e
    BY <1>1, <2>1
  <2>2. CASE Edits(e, d, TRUE)
    <3>1. Edits(b, d, TRUE)
      BY <1>1, <2>2
    <3>2. HasLine(d, f) /\ Changes(b, d)
      BY <3>1, EditsKeep, EditChanges
    <3> QED  BY <3>2
  <2> QED  BY <2>1, <2>2 DEF EditsOrNot
<1>2. CASE Edits(b, e, TRUE)
  <2>1. HasLine(e, f) /\ GoesOn(e) /\ Changes(b, e) /\ e.do_continue = (b.do_continue \/ TRUE)
    BY <1>2, EditsKeep, EditChanges
  <2>2. CASE d = e
    BY <2>1, <2>2
  <2>3. CASE Edits(e, d, TRUE)
    <3>1. HasLine(d, f) /\ Changes(e, d)
      BY <2>1, <2>3, EditsKeep, EditChanges
    <3>2. e.do_continue
      BY <2>1
    <3>3. Past(d) = Past(e) /\ Past(e) # <<>> /\ Future(d) = <<>>
      BY <3>1, <3>2 DEF Changes
    <3>4. Changes(b, d)
      BY <2>1, <3>3 DEF Changes
    <3> QED  BY <3>1, <3>4
  <2> QED  BY <2>2, <2>3 DEF EditsOrNot
<1> QED
  BY <1>1, <1>2 DEF EditsOrNot

\* Flags are not seen.
LEMMA LooksAlike ==
    ASSUME NEW b, NEW f, HasLine(b, f), NEW d, Alike(b, d), NEW g,
           \/ d.modified = b.modified /\ d.modifying_action = b.modifying_action /\ g = f
           \/ ~ d.modified /\ d.modifying_action = None /\ g = b.text
    PROVE  Past(d) = Past(b) /\ Future(d) = Future(b)
<1>1. PICK A, T, n, c, B, D : OnLine(b, f, A, T, n, c, B, D)
  BY DEF HasLine
<1>2. OnLine(d, g, A, T, n, c, B, D)
  BY <1>1, SameLine
<1>3. /\ Past(b) = Texts(T, B, Len(b.undo_stack))
      /\ Future(b) = Texts(T, D, Len(b.redo_stack))
      /\ Past(d) = Texts(T, B, Len(d.undo_stack))
      /\ Future(d) = Texts(T, D, Len(d.redo_stack))
  BY <1>1, <1>2, PastIs, FutureIs
<1> QED
  BY <1>3 DEF Alike

LEMMA NoneAlong ==
    ASSUME NEW d \in Buffer, ~ d.modified, d.modifying_action = None,
           d.undo_stack = <<>>, d.redo_stack = <<>>
    PROVE  Past(d) = <<>> /\ Future(d) = <<>>
<1>1. PICK A, T, n, c, B, D : OnLine(d, d.text, A, T, n, c, B, D)
  BY EmptyLine DEF HasLine
<1>2. Past(d) = Texts(T, B, 0) /\ Future(d) = Texts(T, D, 0)
  <2>1. Len(d.undo_stack) = 0 /\ Len(d.redo_stack) = 0
    OBVIOUS
  <2> QED  BY <1>1, <2>1, PastIs, FutureIs
<1> QED
  BY <1>2, TextsAre

LEMMA UndoTakesBack ==
    ASSUME NEW b, NEW f, HasLine(b, f), b.undo_stack # <<>>
    PROVE  LET d == GroupUndone(Popped(b), Head(b.undo_stack)) IN
           /\ Past(b) # <<>> /\ d.text = Head(Past(b)) /\ Past(d) = Tail(Past(b))
           /\ Future(d) = <<b.text>> \o Future(b)
           /\ SameBut(b, d)
<1>1. PICK A, T, n, c, B, D : OnLine(b, f, A, T, n, c, B, D)
  BY DEF HasLine
<1>2. PICK us, rs : us = b.undo_stack /\ rs = b.redo_stack
  OBVIOUS
<1>3. /\ us \in Seq(Group) /\ us # <<>> /\ rs \in Seq(Group)
      /\ b.text = T[c] /\ D[0] = c
  BY <1>1, <1>2 DEF OnLine, UndoIs, RedoIs, At
<1>4. PICK k \in Nat : k = Len(us) /\ k # 0 /\ Len(Tail(us)) = k - 1
  BY <1>3, Pop
<1>5. PICK l \in Nat : l = Len(rs) /\ Len(<<Head(us)>> \o rs) = l + 1
  BY <1>3, Pop, Push
<1>6. PICK d : d = GroupUndone(Popped(b), Head(b.undo_stack))
  OBVIOUS
<1>7. /\ OnLine(d, f, A, T, n, B[1], Later(B, k), Before(B[1], D, l))
      /\ SameBut(b, d) /\ d.undo_stack = Tail(us) /\ d.redo_stack = <<Head(us)>> \o rs
  BY <1>1, <1>2, <1>3, <1>4, <1>5, <1>6, UndoMoves
<1>8. /\ Past(b) = Texts(T, B, k) /\ Future(b) = Texts(T, D, l)
      /\ Past(d) = Texts(T, Later(B, k), k - 1)
      /\ Future(d) = Texts(T, Before(B[1], D, l), l + 1)
  BY <1>1, <1>2, <1>4, <1>5, <1>7, PastIs, FutureIs
<1>9. d.text = T[B[1]]
  BY <1>7 DEF OnLine, At
<1>10. Past(b) # <<>> /\ d.text = Head(Past(b)) /\ Past(d) = Tail(Past(b))
  BY <1>4, <1>8, <1>9, TextsAre, TextsPopped
<1>11. Future(d) = <<b.text>> \o Future(b)
  <2>1. PICK E : E = Before(B[1], D, l)
    OBVIOUS
  <2>2. \A i \in 0 .. l : E[i + 1] = D[i]
    BY <1>5, <2>1, BeforeIs
  <2>3. T[E[1]] = b.text /\ \A i \in 1 .. l : T[E[i + 1]] = T[D[i]]
    <3>1. 0 \in 0 .. l /\ 0 + 1 = 1 /\ \A i \in 1 .. l : i \in 0 .. l
      BY <1>5
    <3> QED  BY <1>3, <2>2, <3>1
  <2>4. Texts(T, E, l + 1) = Put(T[E[1]], Texts(T, D, l))
    <3>1. l \in Nat
      BY <1>5
    <3>2. OneMore(T, T, D, E, l)
      BY <2>3 DEF OneMore
    <3> QED  BY <3>1, <3>2, TextsPushed, SMT
  <2> QED  BY <1>8, <2>1, <2>3, <2>4 DEF Put
<1> QED
  BY <1>6, <1>7, <1>10, <1>11

LEMMA RedoTakesOn ==
    ASSUME NEW b, NEW f, HasLine(b, f), b.redo_stack # <<>>
    PROVE  LET d == GroupRedone(Pushed(b), Head(b.redo_stack)) IN
           /\ Future(b) # <<>> /\ d.text = Head(Future(b)) /\ Future(d) = Tail(Future(b))
           /\ Past(d) = <<b.text>> \o Past(b)
           /\ SameBut(b, d)
<1>1. PICK A, T, n, c, B, D : OnLine(b, f, A, T, n, c, B, D)
  BY DEF HasLine
<1>2. PICK us, rs : us = b.undo_stack /\ rs = b.redo_stack
  OBVIOUS
<1>3. /\ us \in Seq(Group) /\ rs # <<>> /\ rs \in Seq(Group)
      /\ b.text = T[c] /\ B[0] = c
  BY <1>1, <1>2 DEF OnLine, UndoIs, RedoIs, At
<1>4. PICK l \in Nat : l = Len(rs) /\ l # 0 /\ Len(Tail(rs)) = l - 1
  BY <1>3, Pop
<1>5. PICK k \in Nat : k = Len(us) /\ Len(<<Head(rs)>> \o us) = k + 1
  BY <1>3, Pop, Push
<1>6. PICK d : d = GroupRedone(Pushed(b), Head(b.redo_stack))
  OBVIOUS
<1>7. /\ OnLine(d, f, A, T, n, D[1], Before(D[1], B, k), Later(D, l))
      /\ SameBut(b, d) /\ d.redo_stack = Tail(rs) /\ d.undo_stack = <<Head(rs)>> \o us
  BY <1>1, <1>2, <1>3, <1>4, <1>5, <1>6, RedoMoves
<1>8. /\ Past(b) = Texts(T, B, k) /\ Future(b) = Texts(T, D, l)
      /\ Future(d) = Texts(T, Later(D, l), l - 1)
      /\ Past(d) = Texts(T, Before(D[1], B, k), k + 1)
  BY <1>1, <1>2, <1>4, <1>5, <1>7, PastIs, FutureIs
<1>9. d.text = T[D[1]]
  BY <1>7 DEF OnLine, At
<1>10. Future(b) # <<>> /\ d.text = Head(Future(b)) /\ Future(d) = Tail(Future(b))
  BY <1>4, <1>8, <1>9, TextsAre, TextsPopped
<1>11. Past(d) = <<b.text>> \o Past(b)
  <2>1. PICK E : E = Before(D[1], B, k)
    OBVIOUS
  <2>2. \A i \in 0 .. k : E[i + 1] = B[i]
    BY <1>5, <2>1, BeforeIs
  <2>3. T[E[1]] = b.text /\ \A i \in 1 .. k : T[E[i + 1]] = T[B[i]]
    <3>1. 0 \in 0 .. k /\ 0 + 1 = 1 /\ \A i \in 1 .. k : i \in 0 .. k
      BY <1>5
    <3> QED  BY <1>3, <2>2, <3>1
  <2>4. Texts(T, E, k + 1) = Put(T[E[1]], Texts(T, B, k))
    <3>1. k \in Nat
      BY <1>5
    <3>2. OneMore(T, T, B, E, k)
      BY <2>3 DEF OneMore
    <3> QED  BY <3>1, <3>2, TextsPushed, SMT
  <2> QED  BY <1>8, <2>1, <2>3, <2>4 DEF Put
<1> QED
  BY <1>6, <1>7, <1>10, <1>11

LEMMA HistoryInit == Init => History!Init
<1> SUFFICES ASSUME Init PROVE History!Init
  OBVIOUS
<1>1. buffer \in Buffer
  BY InitHolds, HasType DEF UndoInv
<1>2. Past(buffer) = <<>> /\ Future(buffer) = <<>>
  BY <1>1, NoneAlong DEF Init
<1> QED
  BY <1>2 DEF Init, History!Init

\* What a change is of, in the words of the history.
LEMMA ChangeIsChange ==
    ASSUME NEW d, buffer' = d, Changes(buffer, d), d.text \in Text,
           d.do_continue \in BOOLEAN
    PROVE  History!Change
<1>1. /\ \/ Past(buffer)' = Past(buffer) /\ Past(buffer) # <<>>
         \/ Past(buffer)' = <<buffer.text>> \o Past(buffer) /\ ~ buffer.do_continue
      /\ Future(buffer)' = <<>>
  BY DEF Changes
<1> QED
  BY <1>1 DEF History!Change

LEMMA HistoryNext ==
    ASSUME UndoInv, [Next]_vars
    PROVE  [History!Next]_(History!vars)
<1>b. buffer \in Buffer /\ HasLine(buffer, file) /\ GoesOn(buffer)
      /\ buffer.text \in Text /\ buffer.do_continue \in BOOLEAN
  BY HasType DEF UndoInv, Buffer
<1>c. continue_group \in Nat
  BY DEF UndoInv
<1>d. InMainLoop => ~ buffer.do_continue
  BY <1>b, <1>c DEF UndoInv, InMainLoop
<1>e. PICK d : d = buffer'
  OBVIOUS
<1>f. ASSUME d.text = buffer.text, Past(d) = Past(buffer), Future(d) = Future(buffer),
             d.do_continue = buffer.do_continue
      PROVE  UNCHANGED History!vars
  <2>1. Past(buffer)' = Past(buffer) /\ Future(buffer)' = Future(buffer)
    BY <1>e, <1>f
  <2> QED  BY <1>e, <1>f, <2>1 DEF History!vars
<1>1. CASE begin_user_action
  <2>1. d = buffer
    BY <1>1, <1>e DEF begin_user_action
  <2> QED  BY <1>f, <2>1
<1>2. CASE end_user_action
  <2>1. d = [buffer EXCEPT !.do_continue = @ /\ continue_group' > 0]
    BY <1>2, <1>e DEF end_user_action
  <2>2. d.do_continue = (buffer.do_continue /\ continue_group' > 0)
    BY <1>b, <2>1 DEF Buffer
  <2>3. /\ Alike(buffer, d)
        /\ d.modified = buffer.modified /\ d.modifying_action = buffer.modifying_action
    BY <1>b, <2>1 DEF Alike, Buffer
  <2>4. Past(d) = Past(buffer) /\ Future(d) = Future(buffer) /\ d.text = buffer.text
    BY <1>b, <2>3, LooksAlike DEF Alike
  <2>5. CASE d.do_continue = buffer.do_continue
    BY <1>f, <2>4, <2>5
  <2>6. CASE d.do_continue = FALSE
    <3>1. Past(buffer)' = Past(buffer) /\ Future(buffer)' = Future(buffer)
      BY <1>e, <2>4
    <3>2. History!EndUserAction
      BY <1>e, <2>4, <2>6, <3>1 DEF History!EndUserAction
    <3> QED  BY <3>2 DEF History!Next
  <2> QED  BY <1>b, <2>2, <2>5, <2>6
<1>3. ASSUME Edits(buffer, d, continue_group > 0)
      PROVE  History!Next
  <2>1. Edits(buffer, d, TRUE) \/ Edits(buffer, d, FALSE)
    <3>1. CASE continue_group > 0
      <4>1. (continue_group > 0) = TRUE
        BY <3>1
      <4> QED  BY <1>3, <4>1
    <3>2. CASE ~(continue_group > 0)
      <4>1. (continue_group > 0) = FALSE
        BY <3>2
      <4> QED  BY <1>3, <4>1
    <3> QED  BY <3>1, <3>2
  <2>2. ASSUME NEW inAction \in BOOLEAN, Edits(buffer, d, inAction)
        PROVE  HasLine(d, file) /\ Changes(buffer, d)
    BY <1>b, <2>2, EditsKeep, EditChanges
  <2>3. HasLine(d, file) /\ Changes(buffer, d)
    BY <2>1, <2>2
  <2>4. d.text \in Text /\ d.do_continue \in BOOLEAN
    BY <2>3, HasType DEF Buffer
  <2>5. History!Change
    BY <1>e, <2>3, <2>4, ChangeIsChange
  <2> QED  BY <2>5 DEF History!Next
<1>4. CASE insert_text
  BY <1>3, <1>4, <1>e, InsertEdits
<1>5. CASE delete_range
  BY <1>3, <1>5, <1>e, DeleteEdits
<1>6. CASE undo
  <2>1. /\ buffer.undo_stack # <<>> /\ InMainLoop
        /\ d = GroupUndone(Popped(buffer), Head(buffer.undo_stack))
    BY <1>6, <1>e DEF undo, Popped
  <2>2. /\ Past(buffer) # <<>> /\ d.text = Head(Past(buffer)) /\ Past(d) = Tail(Past(buffer))
        /\ Future(d) = <<buffer.text>> \o Future(buffer)
        /\ SameBut(buffer, d)
    BY <1>b, <2>1, UndoTakesBack
  <2>3. /\ Past(buffer)' = Tail(Past(buffer))
        /\ Future(buffer)' = <<buffer.text>> \o Future(buffer)
    BY <1>e, <2>2
  <2>4. History!Undo
    BY <1>d, <1>e, <2>1, <2>2, <2>3 DEF History!Undo, SameBut
  <2> QED  BY <2>4 DEF History!Next
<1>7. CASE redo
  <2>1. /\ buffer.redo_stack # <<>> /\ InMainLoop
        /\ d = GroupRedone(Pushed(buffer), Head(buffer.redo_stack))
    BY <1>7, <1>e DEF redo, Pushed
  <2>2. /\ Future(buffer) # <<>> /\ d.text = Head(Future(buffer))
        /\ Future(d) = Tail(Future(buffer))
        /\ Past(d) = <<buffer.text>> \o Past(buffer)
        /\ SameBut(buffer, d)
    BY <1>b, <2>1, RedoTakesOn
  <2>3. /\ Future(buffer)' = Tail(Future(buffer))
        /\ Past(buffer)' = <<buffer.text>> \o Past(buffer)
    BY <1>e, <2>2
  <2>4. History!Redo
    BY <1>d, <1>e, <2>1, <2>2, <2>3 DEF History!Redo, SameBut
  <2> QED  BY <2>4 DEF History!Next
<1>8. CASE save
  <2>1. d = Unmodified(buffer)
    BY <1>8, <1>e DEF save
  <2>2. /\ Alike(buffer, d) /\ ~ d.modified /\ d.modifying_action = None
        /\ d.do_continue = buffer.do_continue
    <3>1. 0 \in 0 .. MaxMade + 2
      BY UndoAssumption
    <3> QED  BY <1>b, <2>1, <3>1 DEF Unmodified, Alike, Buffer, None
  <2>3. Past(d) = Past(buffer) /\ Future(d) = Future(buffer) /\ d.text = buffer.text
    BY <1>b, <2>2, LooksAlike DEF Alike
  <2> QED  BY <1>f, <2>2, <2>3
<1>9. CASE load_into_empty
  <2>1. PICK t \in File :
          d = Unmodified([buffer EXCEPT !.text = t, !.undo_stack = <<>>,
                                       !.redo_stack = <<>>, !.new_group = FALSE])
    BY <1>9, <1>e DEF load_into_empty
  <2>2. t \in Text
    BY UndoAssumption DEF Text, Char
  <2>3. /\ d \in Buffer /\ ~ d.modified /\ d.modifying_action = None
        /\ d.undo_stack = <<>> /\ d.redo_stack = <<>> /\ d.text = t
        /\ d.do_continue = buffer.do_continue
    <3>1. 0 \in 0 .. MaxMade + 2 /\ <<>> \in Seq(Group)
      BY UndoAssumption
    <3> QED  BY <1>b, <2>1, <2>2, <3>1 DEF Unmodified, Buffer, None
  <2>4. Past(buffer)' = <<>> /\ Future(buffer)' = <<>>
    BY <1>e, <2>3, NoneAlong
  <2>5. buffer.text = <<>> /\ ~ buffer.do_continue
    BY <1>9, <1>d DEF load_into_empty
  <2>6. History!Load
    BY <1>e, <2>2, <2>3, <2>4, <2>5 DEF History!Load
  <2> QED  BY <2>6 DEF History!Next
<1>10. CASE reload
  <2>1. PICK emptied, loaded :
              /\ EditsOrNot(buffer, emptied) /\ EditsOrNot(emptied, loaded)
              /\ d = Unmodified([loaded EXCEPT !.do_continue = FALSE])
    BY <1>10, <1>e, ReloadEdits
  <2>2. HasLine(loaded, file) /\ (loaded = buffer \/ Changes(buffer, loaded))
    BY <1>b, <2>1, ReloadChanges
  <2>3. loaded \in Buffer /\ loaded.text \in Text
    BY <2>2, HasType
  <2>4. /\ Alike(loaded, d) /\ ~ d.modified /\ d.modifying_action = None
        /\ d.do_continue = FALSE
    <3>1. 0 \in 0 .. MaxMade + 2
      BY UndoAssumption
    <3> QED  BY <2>1, <2>3, <3>1 DEF Unmodified, Alike, Buffer, None
  <2>5. Past(d) = Past(loaded) /\ Future(d) = Future(loaded) /\ d.text = loaded.text
    BY <2>2, <2>4, LooksAlike DEF Alike
  <2>6. buffer.do_continue = FALSE
    BY <1>10, <1>b, <1>d DEF reload
  <2>7. CASE loaded = buffer
    BY <1>f, <2>4, <2>5, <2>6, <2>7
  <2>8. CASE Changes(buffer, loaded)
    <3>1. Changes(buffer, d)
      BY <2>5, <2>8 DEF Changes
    <3>2. d.text \in Text /\ d.do_continue \in BOOLEAN
      BY <2>3, <2>4, <2>5
    <3>3. History!Change
      BY <1>e, <3>1, <3>2, ChangeIsChange
    <3> QED  BY <3>3 DEF History!Next
  <2> QED  BY <2>2, <2>7, <2>8
<1>11. CASE UNCHANGED vars
  <2>1. d = buffer
    BY <1>11, <1>e DEF vars
  <2> QED  BY <1>f, <2>1
<1> QED
  BY <1>1, <1>2, <1>4, <1>5, <1>6, <1>7, <1>8, <1>9, <1>10, <1>11 DEF Next

\* Undo and redo walk along the texts the document had, a change cuts off what could be
\* redone, and a user action is never undone in part: whatever was merged and grouped by
\* moo_undo_stack_add_action(), loaded or saved, each step of the buffer is a step of the
\* history, or none.
THEOREM UndoKeepsTheHistory == Spec => FollowsHistory
<1>1. UndoInv /\ [Next]_vars => [History!Next]_(History!vars)
  BY HistoryNext
<1> QED
  BY <1>1, HistoryInit, UndoInvHolds, PTL DEF Spec, FollowsHistory, History!Spec

=============================================================================
