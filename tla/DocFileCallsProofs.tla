------------------------- MODULE DocFileCallsProofs -------------------------
(***************************************************************************)
(* Proofs about DocFile, for every set of documents and every bound, that  *)
(* have to look at the stack of calls: what may be on top of what, which   *)
(* documents a call may leave modified, and what a call was told by the    *)
(* one above it.  From these: changes are lost by closing only as the user *)
(* said (LostOnlyAsAsked), and what a monitor can still show of a watched  *)
(* file is reported and acted on (WatchedChangeIsDue).                     *)
(*                                                                         *)
(* What is said of the stack is said with operators of a sequence s, the   *)
(* marks st of the documents and the value r that was returned, so that a  *)
(* step of the program can be taken apart into a change of the marks, a    *)
(* call, a return and so on, and the parts be put together again.          *)
(***************************************************************************)
EXTENDS DocFileProofs

USE DEF buffers, watch, files

-----------------------------------------------------------------------------
(* What may be on top of what *)

Loading == {"read", "try_encoding_dialog", "reload_error_dialog", "load_text", "start_watch"}
Saving  == {"save", "overwrite_dialog", "do_save", "encoding_dialog", "do_save_utf8",
            "save_error_dialog", "start_watch"}
Closing == {"close", "save_changes_dialog", "closing"}
Telling == {"file_modified_on_disk", "file_deleted"}

\* A call g may be what the call f waits for, or what the main loop of f dispatched.
Follows(f, g) ==
    \/ f.op \in Dialogs /\ g.op \in {"do_stat", "autosync"}
    \/ f.op = "opening" /\ g.op \in Loading /\ g.doc = f.doc
    \/ f.op = "do_stat" /\ g.op \in Telling
    \/ f.op = "file_modified_on_disk" /\ g.op \in Loading \cup {"reload", "reload_dialog"}
       /\ g.doc = f.doc
    \/ f.op = "file_deleted" /\ g.op \in Closing /\ g.docs = {f.doc}
    \/ f.op \in {"closing", "autosync"} /\ g.op \in Saving

Stacked(s) == \A i \in 1 .. Len(s) - 1 : Follows(s[i], s[i + 1])

\* The documents a call may leave modified, and all it is about.
Minds(f) == f.save \cup f.asked \cup
            (IF f.op \in {"save", "overwrite_dialog", "do_save"} THEN {f.doc} ELSE {})
Touches(f) == {f.doc} \cup f.docs \cup Minds(f)

\* The documents that may be modified while s[i] closes: those the user was asked
\* about and did not choose to save, those still to save, and the one being saved.
Spared(s, i) ==
    s[i].asked \cup
    (IF s[i].op = "closing"
     THEN s[i].save \cup (IF i < Len(s) THEN {s[i + 1].doc} ELSE {}) ELSE {})

Asks(f) == f.op \in {"save_changes_dialog", "closing"}

\* No other document that is being closed is modified, nor will the calls on top
\* leave it so; a save that failed is about to end the closing.
Careful(s, st, r) == \A i \in 1 .. Len(s) : Asks(s[i]) =>
    /\ \A d \in s[i].docs : "MODIFIED" \in st[d] =>
          d \in Spared(s, i) \/ (i = Len(s) /\ s[i].op = "closing" /\ ~r)
    /\ \A j \in i + 1 .. Len(s) : Minds(s[j]) \cap s[i].docs \subseteq Spared(s, i)

\* What was read or written just now is not modified.
Freshly(s, st) ==
    s # <<>> /\ s[Len(s)].op = "start_watch" => "MODIFIED" \notin st[s[Len(s)].doc]

\* A document that is being opened is not modified until it is read, and nothing
\* but its reading is about it: q are the documents without a watch or a timer.
Opens(s, st, r, q) == s # <<>> /\ s[1].op = "opening" =>
    /\ Len(s) = 1 /\ ~r => "MODIFIED" \notin st[s[1].doc]
    /\ Len(s) > 1 /\ s[2].op # "start_watch" =>
          /\ s[1].doc \in q /\ "MODIFIED" \notin st[s[1].doc]
          /\ \A j \in 3 .. Len(s) : s[1].doc \notin Touches(s[j])

\* A document that is about to be opened has no watch and no timer.
Begins(s, q) == s # <<>> /\ s[Len(s)].op = "open" => s[Len(s)].doc \in q

Orderly(s, st, r, q) ==
    Stacked(s) /\ Careful(s, st, r) /\ Freshly(s, st) /\ Opens(s, st, r, q) /\ Begins(s, q)

-----------------------------------------------------------------------------
(* Calls and returns *)

\* The stack without its last call.
Popped(s) == SubSeq(s, 1, Len(s) - 1)

LEMMA PoppedIs ==
    ASSUME NEW s \in Seq(Frame), s # <<>>
    PROVE  /\ Popped(s) \in Seq(Frame) /\ Len(Popped(s)) = Len(s) - 1
           /\ \A i \in 1 .. Len(s) - 1 : Popped(s)[i] = s[i]
           /\ s[Len(s)] \in Frame /\ Len(s) \in Nat \ {0}
<1> DEFINE n == Len(s) - 1
<1>1. n \in Nat /\ n \in Int /\ 1 \in Int /\ \A i \in 1 .. n : s[i] \in Frame
  OBVIOUS
<1>2. Popped(s) = SubSeq(s, 1, n)
  BY DEF Popped
<1> HIDE DEF n
<1>3. /\ SubSeq(s, 1, n) \in Seq(Frame)
      /\ Len(SubSeq(s, 1, n)) = IF 1 <= n THEN n - 1 + 1 ELSE 0
      /\ \A i \in 1 .. n - 1 + 1 : SubSeq(s, 1, n)[i] = s[1 + i - 1]
  BY <1>1, SubSeqProperties
<1>4. Popped(s) \in Seq(Frame) /\ Len(Popped(s)) = n /\ \A i \in 1 .. n : Popped(s)[i] = s[i]
  BY <1>1, <1>2, <1>3
<1>5. s[Len(s)] \in Frame /\ Len(s) \in Nat \ {0}
  OBVIOUS
<1> QED  BY <1>4, <1>5 DEF n

LEMMA PushedIs ==
    ASSUME NEW s \in Seq(Frame), NEW f \in Frame
    PROVE  /\ Append(s, f) \in Seq(Frame) /\ Append(s, f) # <<>>
           /\ Len(Append(s, f)) = Len(s) + 1 /\ Len(s) \in Nat
           /\ \A i \in 1 .. Len(s) : Append(s, f)[i] = s[i]
           /\ Append(s, f)[Len(s) + 1] = f
OBVIOUS

LEMMA SwappedIs ==
    ASSUME NEW s \in Seq(Frame), s # <<>>, NEW g \in Frame
    PROVE  /\ Append(Popped(s), g) \in Seq(Frame) /\ Append(Popped(s), g) # <<>>
           /\ Len(Append(Popped(s), g)) = Len(s) /\ Len(s) \in Nat \ {0}
           /\ \A i \in 1 .. Len(s) - 1 : Append(Popped(s), g)[i] = s[i]
           /\ Append(Popped(s), g)[Len(s)] = g
<1> DEFINE p == Popped(s)
<1>1. p \in Seq(Frame) /\ Len(p) = Len(s) - 1 /\ Len(s) \in Nat \ {0}
      /\ \A i \in 1 .. Len(s) - 1 : p[i] = s[i]
  BY PoppedIs
<1> HIDE DEF p
<1>2. /\ Append(p, g) \in Seq(Frame) /\ Append(p, g) # <<>>
      /\ Len(Append(p, g)) = Len(p) + 1
      /\ \A i \in 1 .. Len(p) : Append(p, g)[i] = p[i]
      /\ Append(p, g)[Len(p) + 1] = g
  BY <1>1, PushedIs
<1>3. Len(p) + 1 = Len(s)
  BY <1>1
<1>4. Append(p, g)[Len(s)] = g
  BY <1>2, <1>3, Zenon
<1> QED  BY <1>1, <1>2, <1>3, <1>4 DEF p

LEMMA FromThree == \A k \in Nat : k # 0 /\ k # 1 /\ k # 2 => k \in 3 .. k
OBVIOUS

\* The marks change: only what is being saved, or what the user types into, gets
\* to be modified.
LEMMA MarksChange ==
    ASSUME NEW s \in Seq(Frame), NEW st, NEW su, NEW r, NEW q, Orderly(s, st, r, q),
           \A d \in Docs : "MODIFIED" \in su[d] /\ "MODIFIED" \notin st[d] =>
               s = <<>> \/ (s[Len(s)].op = "do_save" /\ d = s[Len(s)].doc)
    PROVE  Orderly(s, su, r, q)
<1>1. CASE s = <<>>
  BY <1>1 DEF Orderly, Stacked, Careful, Freshly, Opens, Begins
<1>2. CASE s # <<>>
  <2> DEFINE n == Len(s)
  <2>1. n \in Nat \ {0} /\ \A i \in 1 .. n : s[i] \in Frame
    BY <1>2
  <2>2. \A d \in Docs : "MODIFIED" \in su[d] /\ "MODIFIED" \notin st[d] =>
            s[n].op = "do_save" /\ d = s[n].doc
    BY <1>2
  <2>3. Stacked(s) /\ Careful(s, st, r) /\ Freshly(s, st) /\ Opens(s, st, r, q) /\ Begins(s, q)
    BY DEF Orderly
  <2>4. \A i \in 1 .. n : s[i].docs \subseteq Docs
    BY <2>1 DEF Frame
  <2>5. Careful(s, su, r)
    <3> SUFFICES ASSUME NEW i \in 1 .. n, Asks(s[i]), NEW d \in s[i].docs, "MODIFIED" \in su[d]
                 PROVE  d \in Spared(s, i) \/ (i = n /\ s[i].op = "closing" /\ ~r)
      BY <2>3 DEF Careful
    <3>1. CASE "MODIFIED" \in st[d]
      BY <2>3, <3>1 DEF Careful
    <3>2. CASE "MODIFIED" \notin st[d]
      <4>1. s[n].op = "do_save" /\ d = s[n].doc
        BY <2>2, <2>4, <3>2
      <4>2. i # n
        BY <4>1 DEF Asks
      <4>3. n \in i + 1 .. n
        BY <2>1, <4>2
      <4>4. d \in Minds(s[n])
        BY <4>1 DEF Minds
      <4> QED  BY <2>3, <4>3, <4>4 DEF Careful
    <3> QED  BY <3>1, <3>2
  <2>6. n = 2 /\ s[1].op = "opening" => s[n].op # "do_save"
    BY <2>3 DEF Stacked, Follows, Dialogs, Loading
  <2>7. Freshly(s, su)
    <3>1. s[n].op = "start_watch" => s[n].doc \in Docs
      BY <2>1 DEF Frame, OfNoDoc
    <3> QED  BY <2>2, <2>3, <3>1 DEF Freshly
  <2>8. s[1].op = "opening" => s[1].doc \in Docs
    BY <2>1 DEF Frame, OfNoDoc
  <2>9. Opens(s, su, r, q)
    <3> SUFFICES ASSUME s[1].op = "opening", "MODIFIED" \notin st[s[1].doc],
                        n > 1 => \A j \in 3 .. n : s[1].doc \notin Touches(s[j])
                 PROVE  "MODIFIED" \notin su[s[1].doc]
      BY <2>1, <2>3 DEF Opens
    <3> SUFFICES ASSUME s[n].op = "do_save", s[1].doc = s[n].doc PROVE FALSE
      BY <2>2, <2>8
    <3>1. n # 1
      OBVIOUS
    <3>2. n \in 3 .. n
      <4>1. n \in Nat /\ n # 0 /\ n # 1 /\ n # 2
        BY <2>1, <2>6, <3>1
      <4> QED  BY <4>1, FromThree
    <3> QED  BY <2>1, <3>1, <3>2 DEF Touches
  <2> QED  BY <2>3, <2>5, <2>7, <2>9 DEF Orderly
<1> QED  BY <1>1, <1>2

\* The watches and timers change: those of the document the last call is about.
LEMMA TimersChange ==
    ASSUME NEW s \in Seq(Frame), NEW st, NEW r, NEW q, NEW p, Orderly(s, st, r, q),
           \A d \in q \ p :
               s = <<>> \/ (s[Len(s)].op \in {"start_watch", "do_save", "autosync"} /\ d = s[Len(s)].doc)
    PROVE  Orderly(s, st, r, p)
<1>1. CASE s = <<>>
  BY <1>1 DEF Orderly, Opens, Begins
<1>2. CASE s # <<>>
  <2> DEFINE n == Len(s)
  <2>1. n \in Nat \ {0} /\ \A i \in 1 .. n : s[i] \in Frame
    BY <1>2
  <2>2. Stacked(s) /\ Careful(s, st, r) /\ Freshly(s, st) /\ Opens(s, st, r, q) /\ Begins(s, q)
    BY DEF Orderly
  <2>3. n = 2 /\ s[1].op = "opening" => s[n].op \notin {"do_save", "autosync"}
    BY <2>2 DEF Stacked, Follows, Dialogs, Loading
  <2>4. Opens(s, st, r, p)
    <3> SUFFICES ASSUME s[1].op = "opening", s[1].doc \in q, s[1].doc \notin p, n > 1,
                        s[2].op # "start_watch",
                        \A j \in 3 .. n : s[1].doc \notin Touches(s[j])
                 PROVE  FALSE
      BY <2>1, <2>2 DEF Opens
    <3>1. s[n].op \in {"start_watch", "do_save", "autosync"} /\ s[1].doc = s[n].doc
      BY <1>2
    <3>2. n # 2
      BY <2>3, <3>1
    <3>3. n \in 3 .. n
      <4>1. n \in Nat /\ n # 0 /\ n # 1 /\ n # 2
        BY <2>1, <3>2
      <4> QED  BY <4>1, FromThree
    <3> QED  BY <3>1, <3>3 DEF Touches
  <2>5. Begins(s, p)
    BY <1>2, <2>2 DEF Begins
  <2> QED  BY <2>2, <2>4, <2>5 DEF Orderly
<1> QED  BY <1>1, <1>2

\* A call of a function that is about none of the documents in q, and leaves none
\* modified that is not.
LEMMA Pushes ==
    ASSUME NEW s \in Seq(Frame), NEW st, NEW r, NEW q, Orderly(s, st, r, q), NEW f \in Frame,
           f.op \notin {"save_changes_dialog", "closing", "opening", "start_watch"},
           f.op = "open" => f.doc \in q,
           \/ s = <<>>
           \/ /\ Follows(s[Len(s)], f) /\ s[Len(s)].op \notin {"closing", "opening"}
              /\ \A d \in Minds(f) : "MODIFIED" \in st[d]
              /\ Touches(f) \cap q = {}
    PROVE  Orderly(Append(s, f), st, r, q)
<1> DEFINE n == Len(s)
<1>1. PICK t \in Seq(Frame) : t = Append(s, f)
  BY PushedIs
<1>2. /\ n \in Nat /\ Len(t) = n + 1 /\ t # <<>>
      /\ (\A i \in 1 .. n : t[i] = s[i]) /\ t[n + 1] = f
  BY <1>1, PushedIs
<1>3. Stacked(s) /\ Careful(s, st, r) /\ Freshly(s, st) /\ Opens(s, st, r, q) /\ Begins(s, q)
  BY DEF Orderly
<1>4. n = 0 <=> s = <<>>
  OBVIOUS
<1> HIDE DEF n
<1>5. Stacked(t)
  <2> SUFFICES ASSUME NEW i \in 1 .. n PROVE Follows(t[i], t[i + 1])
    BY <1>2 DEF Stacked
  <2>1. CASE i = n
    BY <1>2, <1>4, <2>1 DEF n
  <2>2. CASE i # n
    <3>1. i \in 1 .. n - 1 /\ i + 1 \in 1 .. n
      BY <1>2, <2>2
    <3> QED  BY <1>2, <1>3, <3>1 DEF Stacked, n
  <2> QED  BY <2>1, <2>2
<1>6. \A i \in 1 .. n : Asks(s[i]) => Spared(t, i) = Spared(s, i)
  <2> SUFFICES ASSUME NEW i \in 1 .. n, Asks(s[i]) PROVE Spared(t, i) = Spared(s, i)
    OBVIOUS
  <2>1. t[i] = s[i] /\ i < Len(t)
    BY <1>2
  <2>2. CASE s[i].op = "closing"
    <3>1. i # n
      BY <1>2, <1>4, <2>2 DEF n
    <3>2. i < n /\ i + 1 \in 1 .. n
      BY <1>2, <3>1
    <3>3. t[i + 1] = s[i + 1]
      BY <1>2, <3>2
    <3> QED  BY <2>1, <3>2, <3>3 DEF Spared, n
  <2>3. CASE s[i].op # "closing"
    BY <2>1, <2>3 DEF Spared
  <2> QED  BY <2>2, <2>3
<1>7. Careful(t, st, r)
  <2> SUFFICES ASSUME NEW i \in 1 .. n + 1, Asks(t[i])
               PROVE  /\ \A d \in t[i].docs : "MODIFIED" \in st[d] => d \in Spared(t, i)
                      /\ \A j \in i + 1 .. n + 1 : Minds(t[j]) \cap t[i].docs \subseteq Spared(t, i)
    BY <1>2 DEF Careful
  <2>1. i # n + 1
    BY <1>2 DEF Asks
  <2>2. i \in 1 .. n /\ t[i] = s[i] /\ Spared(t, i) = Spared(s, i)
    BY <1>2, <1>6, <2>1
  <2>3. ~(i = n /\ s[i].op = "closing")
    BY <1>2, <1>4, <2>2 DEF n
  <2>4. \A d \in t[i].docs : "MODIFIED" \in st[d] => d \in Spared(t, i)
    BY <1>3, <2>2, <2>3 DEF Careful, n
  <2>5. ASSUME NEW j \in i + 1 .. n + 1 PROVE Minds(t[j]) \cap t[i].docs \subseteq Spared(t, i)
    <3>1. CASE j = n + 1
      <4>1. s # <<>>
        BY <1>2, <1>4, <2>2
      <4> QED  BY <1>2, <2>4, <3>1, <4>1
    <3>2. CASE j # n + 1
      <4>1. j \in i + 1 .. n /\ j \in 1 .. n
        BY <1>2, <2>2, <2>5, <3>2
      <4>2. t[j] = s[j]
        BY <1>2, <4>1
      <4> QED  BY <1>3, <2>2, <4>1, <4>2 DEF Careful, n
    <3> QED  BY <3>1, <3>2
  <2> QED  BY <2>4, <2>5
<1>8. Freshly(t, st)
  BY <1>2 DEF Freshly
<1>9. Opens(t, st, r, q)
  <2> SUFFICES ASSUME t[1].op = "opening"
               PROVE  /\ Len(t) # 1
                      /\ t[2].op # "start_watch" =>
                            /\ t[1].doc \in q /\ "MODIFIED" \notin st[t[1].doc]
                            /\ \A j \in 3 .. n + 1 : t[1].doc \notin Touches(t[j])
    BY <1>2 DEF Opens
  <2>1. n > 0 /\ t[1] = s[1] /\ s # <<>>
    BY <1>2, <1>4
  <2>2. n # 1
    BY <2>1 DEF n
  <2>3. n > 1 /\ t[2] = s[2]
    BY <1>2, <2>1, <2>2
  <2> SUFFICES ASSUME t[2].op # "start_watch"
               PROVE  /\ t[1].doc \in q /\ "MODIFIED" \notin st[t[1].doc]
                      /\ \A j \in 3 .. n + 1 : t[1].doc \notin Touches(t[j])
    BY <1>2, <2>3
  <2>4. /\ t[1].doc \in q /\ "MODIFIED" \notin st[t[1].doc]
        /\ \A j \in 3 .. n : t[1].doc \notin Touches(s[j])
    BY <1>3, <2>1, <2>3 DEF Opens, n
  <2>5. ASSUME NEW j \in 3 .. n + 1 PROVE t[1].doc \notin Touches(t[j])
    <3>1. CASE j = n + 1
      BY <1>2, <2>1, <2>4, <3>1
    <3>2. CASE j # n + 1
      <4>1. j \in 3 .. n /\ j \in 1 .. n
        BY <1>2, <3>2
      <4> QED  BY <1>2, <2>4, <4>1
    <3> QED  BY <3>1, <3>2
  <2> QED  BY <2>4, <2>5
<1>10. Begins(t, q)
  BY <1>2 DEF Begins
<1> QED  BY <1>1, <1>5, <1>7, <1>8, <1>9, <1>10 DEF Orderly

\* The last call goes on as another, about the same document.
LEMMA Swaps ==
    ASSUME NEW s \in Seq(Frame), s # <<>>, NEW st, NEW r, NEW q, Orderly(s, st, r, q),
           NEW g \in Frame, NEW r2,
           \A f \in Frame : Follows(f, s[Len(s)]) => Follows(f, g),
           g.op \notin {"opening", "open"}, s[Len(s)].op # "start_watch",
           g.op = "start_watch" => "MODIFIED" \notin st[g.doc],
           g.doc = s[Len(s)].doc,
           \A d \in Minds(g) : d \in Minds(s[Len(s)]) \/ "MODIFIED" \in st[d],
           Touches(g) \subseteq Touches(s[Len(s)]),
           Asks(g) => \A d \in g.docs : "MODIFIED" \in st[d] =>
                         d \in g.asked \cup (IF g.op = "closing" THEN g.save ELSE {})
    PROVE  Orderly(Append(Popped(s), g), st, r2, q)
<1> DEFINE n == Len(s)
<1>1. PICK t \in Seq(Frame) : t = Append(Popped(s), g)
  BY SwappedIs
<1>2. /\ n \in Nat \ {0} /\ Len(t) = n /\ t # <<>>
      /\ (\A i \in 1 .. n - 1 : t[i] = s[i]) /\ t[n] = g
      /\ \A i \in 1 .. n : s[i] \in Frame
  BY <1>1, SwappedIs
<1>3. Stacked(s) /\ Careful(s, st, r) /\ Freshly(s, st) /\ Opens(s, st, r, q) /\ Begins(s, q)
  BY DEF Orderly
<1>4. /\ \A f \in Frame : Follows(f, s[n]) => Follows(f, g)
      /\ s[n].op # "start_watch" /\ g.doc = s[n].doc
      /\ \A d \in Minds(g) : d \in Minds(s[n]) \/ "MODIFIED" \in st[d]
      /\ Touches(g) \subseteq Touches(s[n])
  OBVIOUS
<1> HIDE DEF n
<1>5. Stacked(t)
  <2> SUFFICES ASSUME NEW i \in 1 .. n - 1 PROVE Follows(t[i], t[i + 1])
    BY <1>2 DEF Stacked
  <2>1. Follows(s[i], s[i + 1]) /\ t[i] = s[i] /\ s[i] \in Frame
    BY <1>2, <1>3 DEF Stacked, n
  <2>2. CASE i + 1 = n
    BY <1>2, <1>4, <2>1, <2>2
  <2>3. CASE i + 1 # n
    <3>1. i + 1 \in 1 .. n - 1
      BY <1>2, <2>3
    <3> QED  BY <1>2, <2>1, <3>1
  <2> QED  BY <2>2, <2>3
<1>6. ASSUME NEW i \in 1 .. n - 1 PROVE Spared(t, i) = Spared(s, i)
  <2>1. t[i] = s[i] /\ i < n /\ i + 1 \in 1 .. n
    BY <1>2
  <2>2. t[i + 1].doc = s[i + 1].doc
    <3>1. CASE i + 1 = n
      BY <1>2, <1>4, <3>1
    <3>2. CASE i + 1 # n
      <4>1. i + 1 \in 1 .. n - 1
        BY <1>2, <3>2
      <4> QED  BY <1>2, <4>1
    <3> QED  BY <3>1, <3>2
  <2>3. Len(t) = n /\ Len(s) = n
    BY <1>2 DEF n
  <2> QED  BY <2>1, <2>2, <2>3 DEF Spared
<1>7. Careful(t, st, r2)
  <2> SUFFICES ASSUME NEW i \in 1 .. n, Asks(t[i])
               PROVE  /\ \A d \in t[i].docs : "MODIFIED" \in st[d] => d \in Spared(t, i)
                      /\ \A j \in i + 1 .. n : Minds(t[j]) \cap t[i].docs \subseteq Spared(t, i)
    BY <1>2 DEF Careful
  <2>1. CASE i = n
    <3>1. \A d \in t[i].docs : "MODIFIED" \in st[d] => d \in Spared(t, i)
      BY <1>2, <2>1 DEF Spared
    <3>2. \A j \in i + 1 .. n : FALSE
      BY <1>2, <2>1
    <3> QED  BY <3>1, <3>2
  <2>2. CASE i # n
    <3>1. i \in 1 .. n - 1 /\ t[i] = s[i] /\ Spared(t, i) = Spared(s, i)
      BY <1>2, <1>6, <2>2
    <3>2. \A d \in t[i].docs : "MODIFIED" \in st[d] => d \in Spared(t, i)
      BY <1>2, <1>3, <2>2, <3>1 DEF Careful, n
    <3>3. \A j \in i + 1 .. n : Minds(s[j]) \cap t[i].docs \subseteq Spared(t, i)
      BY <1>3, <3>1 DEF Careful, n
    <3>4. ASSUME NEW j \in i + 1 .. n PROVE Minds(t[j]) \cap t[i].docs \subseteq Spared(t, i)
      <4>1. CASE j = n
        <5>1. t[j] = g
          BY <1>2, <4>1
        <5>2. Minds(s[n]) \cap t[i].docs \subseteq Spared(t, i)
          BY <3>3, <4>1
        <5> QED  BY <1>4, <3>2, <5>1, <5>2
      <4>2. CASE j # n
        <5>1. j \in 1 .. n - 1
          BY <1>2, <4>2
        <5> QED  BY <1>2, <3>3, <5>1
      <4> QED  BY <4>1, <4>2
    <3> QED  BY <3>2, <3>4
  <2> QED  BY <2>1, <2>2
<1>8. Freshly(t, st)
  BY <1>2 DEF Freshly
<1>9. Opens(t, st, r2, q)
  <2> SUFFICES ASSUME t[1].op = "opening"
               PROVE  /\ n # 1
                      /\ t[2].op # "start_watch" =>
                            /\ t[1].doc \in q /\ "MODIFIED" \notin st[t[1].doc]
                            /\ \A j \in 3 .. n : t[1].doc \notin Touches(t[j])
    BY <1>2 DEF Opens
  <2>1. n # 1
    BY <1>2
  <2>2. n > 1 /\ t[1] = s[1] /\ s # <<>>
    BY <1>2, <2>1
  <2> SUFFICES ASSUME t[2].op # "start_watch"
               PROVE  /\ t[1].doc \in q /\ "MODIFIED" \notin st[t[1].doc]
                      /\ \A j \in 3 .. n : t[1].doc \notin Touches(t[j])
    BY <2>1
  <2>3. s[2].op # "start_watch"
    <3>1. CASE n = 2
      BY <1>4, <3>1
    <3>2. CASE n # 2
      <4>1. 2 \in 1 .. n - 1
        BY <1>2, <2>2, <3>2
      <4> QED  BY <1>2, <4>1
    <3> QED  BY <3>1, <3>2
  <2>4. /\ t[1].doc \in q /\ "MODIFIED" \notin st[t[1].doc]
        /\ \A j \in 3 .. n : t[1].doc \notin Touches(s[j])
    BY <1>3, <2>2, <2>3 DEF Opens, n
  <2>5. ASSUME NEW j \in 3 .. n PROVE t[1].doc \notin Touches(t[j])
    <3>1. CASE j = n
      <4>1. t[1].doc \notin Touches(s[n])
        BY <2>4, <3>1
      <4> QED  BY <1>2, <1>4, <3>1, <4>1
    <3>2. CASE j # n
      <4>1. j \in 1 .. n - 1
        BY <1>2, <3>2
      <4> QED  BY <1>2, <2>4, <4>1
    <3> QED  BY <3>1, <3>2
  <2> QED  BY <2>4, <2>5
<1>10. Begins(t, q)
  BY <1>2 DEF Begins
<1> QED  BY <1>1, <1>5, <1>7, <1>8, <1>9, <1>10 DEF Orderly

\* The last call returns.  To a closing it says that the document is saved only if it is.
LEMMA Pops ==
    ASSUME NEW s \in Seq(Frame), s # <<>>, NEW st, NEW r, NEW q, Orderly(s, st, r, q),
           NEW r2 \in BOOLEAN,
           Len(s) > 1 /\ s[Len(s) - 1].op = "closing" /\ r2 => s[Len(s)].op = "start_watch"
    PROVE  Orderly(Popped(s), st, r2, q)
<1> DEFINE n == Len(s)
<1>1. PICK t \in Seq(Frame) : t = Popped(s)
  BY PoppedIs
<1>2. /\ n \in Nat \ {0} /\ Len(t) = n - 1 /\ (t = <<>> <=> n = 1)
      /\ (\A i \in 1 .. n - 1 : t[i] = s[i])
      /\ \A i \in 1 .. n : s[i] \in Frame
  <2>1. n \in Nat \ {0} /\ Len(t) = n - 1 /\ \A i \in 1 .. n - 1 : t[i] = s[i]
    BY <1>1, PoppedIs
  <2>2. t = <<>> <=> Len(t) = 0
    OBVIOUS
  <2>3. \A i \in 1 .. n : s[i] \in Frame
    OBVIOUS
  <2> QED  BY <2>1, <2>2, <2>3
<1>3. Stacked(s) /\ Careful(s, st, r) /\ Freshly(s, st) /\ Opens(s, st, r, q) /\ Begins(s, q)
  BY DEF Orderly
<1>4. n > 1 => Follows(s[n - 1], s[n]) /\ n - 1 \in 1 .. n - 1
  <2>1. n > 1 => n - 1 \in 1 .. n - 1 /\ (n - 1) + 1 = n
    BY <1>2
  <2> QED  BY <1>3, <2>1 DEF Stacked
<1>5. s[n].op = "start_watch" => "MODIFIED" \notin st[s[n].doc]
  BY <1>3 DEF Freshly
<1>6. n > 1 /\ s[n - 1].op = "closing" /\ r2 => s[n].op = "start_watch"
  OBVIOUS
<1> HIDE DEF n
<1>7. Stacked(t)
  <2> SUFFICES ASSUME NEW i \in 1 .. (n - 1) - 1 PROVE Follows(t[i], t[i + 1])
    BY <1>2 DEF Stacked
  <2>1. i \in 1 .. n - 1 /\ i + 1 \in 1 .. n - 1
    BY <1>2
  <2> QED  BY <1>2, <1>3, <2>1 DEF Stacked, n
<1>8. Careful(t, st, r2)
  <2> SUFFICES ASSUME NEW i \in 1 .. n - 1, Asks(t[i])
               PROVE  /\ \A d \in t[i].docs : "MODIFIED" \in st[d] =>
                            d \in Spared(t, i) \/ (i = n - 1 /\ t[i].op = "closing" /\ ~r2)
                      /\ \A j \in i + 1 .. n - 1 : Minds(t[j]) \cap t[i].docs \subseteq Spared(t, i)
    BY <1>2 DEF Careful
  <2>1. t[i] = s[i] /\ i \in 1 .. n /\ i # n
    BY <1>2
  <2>2. /\ \A d \in t[i].docs : "MODIFIED" \in st[d] => d \in Spared(s, i)
        /\ \A j \in i + 1 .. n : Minds(s[j]) \cap t[i].docs \subseteq Spared(s, i)
    BY <1>3, <2>1 DEF Careful, n
  <2>3. CASE i = n - 1
    <3>1. \A j \in i + 1 .. n - 1 : FALSE
      BY <1>2, <2>3
    <3>2. ASSUME NEW d \in t[i].docs, "MODIFIED" \in st[d]
          PROVE  d \in Spared(t, i) \/ (t[i].op = "closing" /\ ~r2)
      <4>1. d \in Spared(s, i)
        BY <2>2, <3>2
      <4>2. CASE t[i].op # "closing"
        BY <2>1, <4>1, <4>2 DEF Spared
      <4>3. CASE t[i].op = "closing" /\ r2
        <5>1. n > 1 /\ s[n - 1].op = "closing"
          BY <1>2, <2>1, <2>3, <4>3
        <5>2. "MODIFIED" \notin st[s[n].doc]
          BY <1>5, <1>6, <4>3, <5>1
        <5>3. i + 1 = n
          BY <1>2, <2>3
        <5>4. d # s[i + 1].doc
          BY <3>2, <5>2, <5>3
        <5> QED  BY <2>1, <4>1, <4>3, <5>4 DEF Spared
      <4> QED  BY <4>2, <4>3
    <3> QED  BY <2>3, <3>1, <3>2
  <2>4. CASE i # n - 1
    <3>1. i < n - 1 /\ i + 1 \in 1 .. n - 1 /\ Len(t) = n - 1 /\ Len(s) = n /\ i < n
      BY <1>2, <2>4 DEF n
    <3>2. Spared(t, i) = Spared(s, i)
      BY <1>2, <2>1, <3>1 DEF Spared
    <3>3. ASSUME NEW j \in i + 1 .. n - 1 PROVE Minds(t[j]) \cap t[i].docs \subseteq Spared(t, i)
      <4>1. j \in 1 .. n - 1 /\ j \in i + 1 .. n
        BY <1>2, <3>1
      <4> QED  BY <1>2, <2>2, <3>2, <4>1
    <3> QED  BY <2>2, <3>2, <3>3
  <2> QED  BY <2>3, <2>4
<1>9. Freshly(t, st)
  <2>1. CASE n = 1
    BY <1>2, <2>1 DEF Freshly
  <2>2. CASE n # 1
    <3>1. Follows(s[n - 1], s[n]) /\ t[n - 1] = s[n - 1]
      BY <1>2, <1>4, <2>2
    <3>2. t[n - 1].op # "start_watch"
      BY <3>1 DEF Follows, Dialogs
    <3> QED  BY <1>2, <3>2 DEF Freshly
  <2> QED  BY <2>1, <2>2
<1>10. Opens(t, st, r2, q)
  <2>1. CASE n = 1
    BY <1>2, <2>1 DEF Opens
  <2>2. CASE n = 2
    <3>1. t[1] = s[1] /\ Follows(s[1], s[2]) /\ Len(t) = 1
      BY <1>2, <1>4, <2>2
    <3>2. s[1].op = "opening" => "MODIFIED" \notin st[s[1].doc]
      <4>1. CASE s[2].op = "start_watch"
        BY <1>5, <2>2, <3>1, <4>1 DEF Follows, Dialogs
      <4>2. CASE s[2].op # "start_watch"
        BY <1>3, <2>2, <4>2 DEF Opens, n
      <4> QED  BY <4>1, <4>2
    <3> QED  BY <3>1, <3>2 DEF Opens
  <2>3. CASE n > 2
    <3>1. t[1] = s[1] /\ t[2] = s[2] /\ s # <<>> /\ Len(s) > 1 /\ Len(t) # 1
      BY <1>2, <2>3 DEF n
    <3>2. \A j \in 3 .. n - 1 : t[j] = s[j] /\ j \in 3 .. n
      BY <1>2
    <3> QED  BY <1>2, <1>3, <3>1, <3>2 DEF Opens, n
  <2> QED  BY <1>2, <2>1, <2>2, <2>3
<1>11. Begins(t, q)
  <2>1. CASE n = 1
    BY <1>2, <2>1 DEF Begins
  <2>2. CASE n # 1
    <3>1. Follows(s[n - 1], s[n]) /\ t[n - 1] = s[n - 1]
      BY <1>2, <1>4, <2>2
    <3>2. t[n - 1].op # "open"
      BY <3>1 DEF Follows, Dialogs
    <3> QED  BY <1>2, <3>2 DEF Begins
  <2> QED  BY <2>1, <2>2
<1> QED  BY <1>1, <1>7, <1>8, <1>9, <1>10, <1>11 DEF Orderly

\* The next of those still to save is being saved.
LEMMA SavesNext ==
    ASSUME NEW s \in Seq(Frame), s # <<>>, NEW st, NEW r \in BOOLEAN, NEW q, Orderly(s, st, r, q),
           s[Len(s)].op = "closing", r, NEW d \in s[Len(s)].save
    PROVE  Orderly(Append(Append(Popped(s), [s[Len(s)] EXCEPT !.save = @ \ {d}]), Call("save", d)),
                   st, r, q)
<1> DEFINE n == Len(s)
           f == s[n]
           g == [f EXCEPT !.save = @ \ {d}]
           h == Call("save", d)
<1>1. n \in Nat \ {0} /\ f \in Frame
  BY PoppedIs
<1>2. d \in Docs /\ g \in Frame /\ h \in Frame
  <2>1. f.save \subseteq Docs
    BY <1>1 DEF Frame
  <2>2. h \in Frame
    BY <2>1, NewCalls DEF Entries, OfNoDoc
  <2>3. g \in Frame
    BY <1>1, <2>1 DEF Frame
  <2> QED  BY <2>1, <2>2, <2>3
<1>3. /\ g.op = "closing" /\ g.doc = f.doc /\ g.docs = f.docs /\ g.asked = f.asked
      /\ g.save = f.save \ {d}
      /\ h.op = "save" /\ h.doc = d /\ h.docs = {} /\ h.save = {} /\ h.asked = {}
  BY <1>1 DEF Frame, Call
<1> HIDE DEF g, h
<1>4. PICK u \in Seq(Frame) : u = Append(Popped(s), g)
  BY <1>2, SwappedIs
<1>5. Len(u) = n /\ (\A i \in 1 .. n - 1 : u[i] = s[i]) /\ u[n] = g
  BY <1>2, <1>4, SwappedIs
<1>6. PICK t \in Seq(Frame) : t = Append(u, h)
  BY <1>2, PushedIs
<1>7. /\ Len(t) = n + 1 /\ t # <<>>
      /\ (\A i \in 1 .. n - 1 : t[i] = s[i]) /\ t[n] = g /\ t[n + 1] = h
  <2>1. Len(t) = n + 1 /\ t # <<>> /\ (\A i \in 1 .. n : t[i] = u[i]) /\ t[n + 1] = h
    BY <1>2, <1>5, <1>6, PushedIs
  <2>2. n \in 1 .. n /\ \A i \in 1 .. n - 1 : i \in 1 .. n
    BY <1>1
  <2> QED  BY <1>5, <2>1, <2>2
<1>8. Stacked(s) /\ Careful(s, st, r) /\ Freshly(s, st) /\ Opens(s, st, r, q) /\ Begins(s, q)
  BY DEF Orderly
<1>9. f.op = "closing"
  OBVIOUS
<1>10. \A i \in 1 .. n : s[i] \in Frame
  OBVIOUS
<1>11. f = s[n]
  OBVIOUS
<1> HIDE DEF n, f
<1>12. Stacked(t)
  <2>0. Len(t) - 1 = n
    BY <1>1, <1>7
  <2> SUFFICES ASSUME NEW i \in 1 .. n PROVE Follows(t[i], t[i + 1])
    BY <2>0 DEF Stacked
  <2>1. CASE i = n
    BY <1>3, <1>7, <2>1 DEF Follows, Saving
  <2>2. CASE i # n
    <3>1. i \in 1 .. n - 1 /\ t[i] = s[i] /\ Follows(s[i], s[i + 1])
      BY <1>1, <1>7, <1>8, <2>2 DEF Stacked, n
    <3>2. CASE i + 1 = n
      BY <1>3, <1>7, <1>9, <1>11, <3>1, <3>2 DEF Follows, Loading, Saving, Telling, Closing
    <3>3. CASE i + 1 # n
      <4>1. i + 1 \in 1 .. n - 1
        BY <1>1, <3>1, <3>3
      <4> QED  BY <1>7, <3>1, <4>1
    <3> QED  BY <3>2, <3>3
  <2> QED  BY <2>1, <2>2
<1>13. \A i \in 1 .. n - 1 : Spared(t, i) = Spared(s, i)
  <2> SUFFICES ASSUME NEW i \in 1 .. n - 1 PROVE Spared(t, i) = Spared(s, i)
    OBVIOUS
  <2>1. t[i] = s[i] /\ i < n /\ i < n + 1 /\ Len(t) = n + 1 /\ Len(s) = n
    BY <1>1, <1>7 DEF n
  <2>2. t[i + 1].doc = s[i + 1].doc
    <3>1. CASE i + 1 = n
      BY <1>3, <1>7, <1>11, <3>1
    <3>2. CASE i + 1 # n
      <4>1. i + 1 \in 1 .. n - 1
        BY <1>1, <3>2
      <4> QED  BY <1>7, <4>1
    <3> QED  BY <3>1, <3>2
  <2> QED  BY <2>1, <2>2 DEF Spared
<1>14. d \in f.save /\ Spared(s, n) = f.asked \cup f.save
  BY <1>1, <1>9, <1>11 DEF Spared, f, n
<1>15. Spared(t, n) = Spared(s, n)
  <2>1. n < Len(t) /\ t[n].op = "closing" /\ t[n + 1].doc = d
    BY <1>1, <1>3, <1>7
  <2>2. Spared(t, n) = g.asked \cup (g.save \cup {d})
    BY <1>7, <2>1 DEF Spared
  <2> QED  BY <1>3, <1>14, <2>2
<1>16. ASSUME NEW i \in 1 .. n, Asks(s[i])
       PROVE  /\ t[i].docs = s[i].docs
              /\ \A e \in s[i].docs : "MODIFIED" \in st[e] => e \in Spared(s, i)
              /\ \A j \in i + 1 .. n : Minds(s[j]) \cap s[i].docs \subseteq Spared(s, i)
  <2>1. t[i].docs = s[i].docs
    <3>1. i = n \/ i \in 1 .. n - 1
      BY <1>1
    <3> QED  BY <1>3, <1>7, <1>11, <3>1
  <2> QED  BY <1>8, <1>16, <2>1 DEF Careful, n
<1>17. Careful(t, st, r)
  <2> SUFFICES ASSUME NEW i \in 1 .. n + 1, Asks(t[i])
               PROVE  /\ \A e \in t[i].docs : "MODIFIED" \in st[e] => e \in Spared(t, i)
                      /\ \A j \in i + 1 .. n + 1 : Minds(t[j]) \cap t[i].docs \subseteq Spared(t, i)
    BY <1>7 DEF Careful
  <2>1. i # n + 1
    BY <1>3, <1>7 DEF Asks
  <2>2. i \in 1 .. n /\ (i = n \/ i \in 1 .. n - 1)
    BY <1>1, <2>1
  <2>3. Asks(s[i]) /\ Spared(t, i) = Spared(s, i)
    BY <1>3, <1>7, <1>9, <1>11, <1>13, <1>15, <2>2 DEF Asks
  <2>4. /\ t[i].docs = s[i].docs
        /\ \A e \in s[i].docs : "MODIFIED" \in st[e] => e \in Spared(s, i)
        /\ \A j \in i + 1 .. n : Minds(s[j]) \cap s[i].docs \subseteq Spared(s, i)
    BY <1>16, <2>2, <2>3
  <2>5. Minds(h) = {d} /\ Minds(g) \subseteq Minds(f) /\ d \in Minds(f)
    BY <1>3, <1>9, <1>14 DEF Minds
  <2>6. ASSUME NEW j \in i + 1 .. n + 1 PROVE Minds(t[j]) \cap t[i].docs \subseteq Spared(t, i)
    <3>1. CASE i = n
      <4>1. j = n + 1
        BY <1>1, <3>1
      <4> QED  BY <1>7, <1>14, <2>3, <2>5, <3>1, <4>1
    <3>2. CASE i # n /\ j = n + 1
      <4>1. n \in i + 1 .. n
        BY <1>1, <2>2, <3>2
      <4> QED  BY <1>7, <1>11, <2>3, <2>4, <2>5, <3>2, <4>1
    <3>3. CASE i # n /\ j = n
      <4>1. n \in i + 1 .. n
        BY <1>1, <2>2, <3>3
      <4> QED  BY <1>7, <1>11, <2>3, <2>4, <2>5, <3>3, <4>1
    <3>4. CASE i # n /\ j # n + 1 /\ j # n
      <4>1. j \in i + 1 .. n /\ j \in 1 .. n - 1
        BY <1>1, <2>2, <3>4
      <4> QED  BY <1>7, <2>3, <2>4, <4>1
    <3> QED  BY <3>1, <3>2, <3>3, <3>4
  <2> QED  BY <2>3, <2>4, <2>6
<1>18. Freshly(t, st)
  BY <1>3, <1>7 DEF Freshly
<1>19. Opens(t, st, r, q)
  <2> SUFFICES ASSUME t[1].op = "opening"
               PROVE  /\ n + 1 # 1
                      /\ t[2].op # "start_watch" =>
                            /\ t[1].doc \in q /\ "MODIFIED" \notin st[t[1].doc]
                            /\ \A j \in 3 .. n + 1 : t[1].doc \notin Touches(t[j])
    BY <1>7 DEF Opens
  <2>1. n # 1
    BY <1>3, <1>7
  <2>2. t[1] = s[1] /\ n > 1 /\ s # <<>>
    BY <1>1, <1>7, <2>1
  <2>3. s[1].op = "opening" /\ s[n].op = "closing"
    BY <1>9, <1>11, <2>2
  <2>4. n # 2
    BY <1>8, <2>3 DEF Stacked, Follows, Dialogs, Loading, n
  <2>5. n > 2 /\ t[2] = s[2]
    BY <1>1, <1>7, <2>2, <2>4
  <2> SUFFICES ASSUME t[2].op # "start_watch"
               PROVE  /\ t[1].doc \in q /\ "MODIFIED" \notin st[t[1].doc]
                      /\ \A j \in 3 .. n + 1 : t[1].doc \notin Touches(t[j])
    BY <1>1
  <2>6. /\ t[1].doc \in q /\ "MODIFIED" \notin st[t[1].doc]
        /\ \A j \in 3 .. n : t[1].doc \notin Touches(s[j])
    BY <1>8, <2>2, <2>5 DEF Opens, n
  <2>7. t[1].doc \notin Touches(f) /\ Touches(g) \subseteq Touches(f) \cup {d}
        /\ d \in Touches(f)
    BY <1>1, <1>3, <1>9, <1>11, <1>14, <2>5, <2>6 DEF Touches, Minds
  <2>8. Touches(h) = {d}
    BY <1>3 DEF Touches, Minds
  <2>9. ASSUME NEW j \in 3 .. n + 1 PROVE t[1].doc \notin Touches(t[j])
    <3>1. CASE j = n + 1
      BY <1>7, <2>7, <2>8, <3>1
    <3>2. CASE j = n
      BY <1>7, <2>7, <3>2
    <3>3. CASE j # n + 1 /\ j # n
      <4>1. j \in 3 .. n /\ j \in 1 .. n - 1
        BY <1>1, <3>3
      <4> QED  BY <1>7, <2>6, <4>1
    <3> QED  BY <3>1, <3>2, <3>3
  <2> QED  BY <2>6, <2>9
<1>20. Append(Append(Popped(s), g), h) = t
  BY <1>4, <1>6
<1>21. Begins(t, q)
  BY <1>3, <1>7 DEF Begins
<1> QED  BY <1>12, <1>17, <1>18, <1>19, <1>20, <1>21 DEF Orderly, g, h, f, n

LEMMA EmptyOrderly == \A st, r, q : Orderly(<<>>, st, r, q)
BY DEF Orderly, Stacked, Careful, Freshly, Opens, Begins

-----------------------------------------------------------------------------
(* The steps of the program *)

\* Nothing would happen to these if nobody opened, saved or reloaded them.
QuietDocs == {d \in Docs : file_monitor_id[d] = 0 /\ sync_timeout_id[d] = "none" /\ orphans[d] = 0}

\* What was closed has no timer, but for those its sync_timeout_id has lost.
ClosedHaveNone == \A d \in Docs \ open : sync_timeout_id[d] = "none"

CallsInvariant == Orderly(calls, status, ret, QuietDocs) /\ ClosedHaveNone

LEMMA TopIs == Top = calls[Len(calls)] /\ Below = Popped(calls)
BY DEF Top, Below, Popped

LEMMA Returns ==
    ASSUME calls \in Seq(Frame), calls # <<>>, NEW st, NEW q, Orderly(calls, st, ret, q),
           NEW r \in BOOLEAN, Return(r), r /\ Top.op \in Saving => Top.op = "start_watch"
    PROVE  Orderly(calls', st, ret', q)
<1> DEFINE n == Len(calls)
           b == Below
<1>1. n \in Nat \ {0} /\ b = Popped(calls) /\ b \in Seq(Frame) /\ Len(b) = n - 1
      /\ \A i \in 1 .. n - 1 : b[i] = calls[i]
  BY PoppedIs, TopIs
<1>2. calls' = b /\ ret' = (r \/ b = <<>> \/ b[Len(b)].op \in Dialogs)
  BY DEF Return
<1>3. ret' \in BOOLEAN
  BY <1>2, Zenon
<1>4. ASSUME n > 1, calls[n - 1].op = "closing", ret' PROVE Top.op = "start_watch"
  <2>1. n - 1 \in 1 .. n - 1 /\ (n - 1) + 1 = n
    BY <1>1, <1>4
  <2>2. Follows(calls[n - 1], calls[n])
    BY <2>1 DEF Orderly, Stacked
  <2>3. Top.op \in Saving
    BY <1>4, <2>2, TopIs DEF Follows, Dialogs
  <2>4. b # <<>> /\ b[Len(b)].op = "closing"
    BY <1>1, <1>4, <2>1
  <2>5. r
    BY <1>2, <1>4, <2>4 DEF Dialogs
  <2> QED  BY <2>3, <2>5
<1>5. Orderly(Popped(calls), st, ret', q)
  BY <1>3, <1>4, Pops, TopIs
<1> QED  BY <1>1, <1>2, <1>5

\* A reload or a save goes on.
LEMMA GoesOn ==
    ASSUME calls \in Seq(Frame), calls # <<>>, NEW st, NEW q, Orderly(calls, st, ret, q),
           NEW g \in Frame, Become(g),
           g.doc = Top.doc, g.docs = Top.docs, Minds(g) \subseteq Minds(Top),
           \/ /\ Top.op \in Loading \cup {"reload", "reload_dialog"}
              /\ g.op \in Loading \cup {"reload", "reload_dialog"}
              /\ Top.op \in Loading => g.op \in Loading
           \/ Top.op \in Saving /\ g.op \in Saving,
           Top.op # "start_watch",
           g.op = "start_watch" => "MODIFIED" \notin st[g.doc]
    PROVE  /\ Orderly(calls', st, ret', q)
           /\ calls' \in Seq(Frame) /\ calls' # <<>> /\ calls'[Len(calls')] = g
<1>1. calls' = Append(Popped(calls), g) /\ ret' = ret
  BY TopIs DEF Become
<1>2. \A f \in Frame : Follows(f, Top) => Follows(f, g)
  BY DEF Follows, Loading, Saving, Telling, Closing, Dialogs
<1>3. g.op \notin {"opening", "open"} /\ ~Asks(g)
  BY DEF Loading, Saving, Asks
<1>4. Touches(g) \subseteq Touches(Top)
  BY DEF Touches
<1>5. Orderly(Append(Popped(calls), g), st, ret', q)
  BY <1>2, <1>3, <1>4, Swaps, TopIs
<1>6. calls' \in Seq(Frame) /\ calls' # <<>> /\ calls'[Len(calls')] = g
  <2>1. PICK t \in Seq(Frame) : t = Append(Popped(calls), g)
    BY SwappedIs
  <2>2. t # <<>> /\ Len(t) = Len(calls) /\ t[Len(calls)] = g
    BY <2>1, SwappedIs
  <2>3. t[Len(t)] = g
    BY <2>2
  <2> QED  BY <1>1, <2>1, <2>2, <2>3
<1> QED  BY <1>1, <1>5, <1>6

LEMMA Continues ==
    ASSUME calls \in Seq(Frame), calls # <<>>, NEW st, NEW q, Orderly(calls, st, ret, q),
           NEW next, Becomes(next),
           \/ /\ Top.op \in {"reload", "reload_dialog"}
              /\ next \in {"reload_dialog", "read"}
           \/ Top.op = "read" /\ next = "reload_error_dialog"
           \/ Top.op = "try_encoding_dialog" /\ next = "load_text"
           \/ Top.op = "load_text" /\ next = "start_watch"
           \/ Top.op = "save" /\ next \in {"overwrite_dialog", "do_save"}
           \/ /\ Top.op \in {"do_save", "encoding_dialog", "do_save_utf8"}
              /\ next \in {"encoding_dialog", "do_save_utf8", "save_error_dialog", "start_watch"},
           next = "start_watch" => "MODIFIED" \notin st[Top.doc]
    PROVE  /\ Orderly(calls', st, ret', q)
           /\ calls' \in Seq(Frame) /\ calls' # <<>>
           /\ calls'[Len(calls')].op = next /\ calls'[Len(calls')].doc = Top.doc
<1>1. Top \in Frame
  BY PoppedIs, TopIs
<1>2. PICK g : g = [Top EXCEPT !.op = next]
  OBVIOUS
<1>3. g \in Frame
  <2>1. next \in Entries \cup Dialogs /\ (Top.op \in OfNoDoc <=> next \in OfNoDoc)
    BY DEF Entries, Dialogs, OfNoDoc
  <2> QED  BY <1>1, <1>2, <2>1, GoesOnAs
<1>4. /\ g.op = next /\ g.doc = Top.doc /\ g.docs = Top.docs
      /\ g.save = Top.save /\ g.asked = Top.asked
  BY <1>1, <1>2 DEF Frame
<1>5. Minds(g) \subseteq Minds(Top)
  BY <1>4 DEF Minds
<1>6. Become(g)
  BY <1>2 DEF Becomes
<1>7. Top.op # "start_watch"
  OBVIOUS
<1>8. \/ /\ Top.op \in Loading \cup {"reload", "reload_dialog"}
         /\ g.op \in Loading \cup {"reload", "reload_dialog"}
         /\ Top.op \in Loading => g.op \in Loading
      \/ Top.op \in Saving /\ g.op \in Saving
  BY <1>4 DEF Loading, Saving
<1> QED  BY <1>3, <1>4, <1>5, <1>6, <1>7, <1>8, GoesOn

\* The main loop dispatches a source, or a function is called.
LEMMA Enters ==
    ASSUME TypeOK, CallsInvariant, NEW f \in Frame, Enter(f),
           f.op \notin {"save_changes_dialog", "closing", "opening", "start_watch"},
           f.op = "open" => f.doc \in QuietDocs,
           \/ calls = <<>>
           \/ /\ Follows(Top, f) /\ Top.op \notin {"closing", "opening"}
              /\ \A d \in Minds(f) : "MODIFIED" \in status[d]
              /\ Touches(f) \cap QuietDocs = {}
    PROVE  Orderly(calls', status, ret', QuietDocs)
<1>1. calls' = Append(calls, f) /\ ret' = ret
  BY DEF Enter
<1>2. calls \in Seq(Frame)
  BY DEF TypeOK
<1>3. Orderly(Append(calls, f), status, ret, QuietDocs)
  BY <1>2, Pushes, TopIs DEF CallsInvariant
<1> QED  BY <1>1, <1>3

\* A call, and the call it makes first.
LEMMA EntersTwo ==
    ASSUME TypeOK, CallsInvariant, NEW f \in Frame, NEW g \in Frame,
           calls' = Append(Append(calls, f), g), ret' = ret,
           f.op \notin {"save_changes_dialog", "closing", "opening", "start_watch", "open"},
           g.op \notin {"save_changes_dialog", "closing", "opening", "start_watch", "open"},
           Minds(f) = {}, Follows(f, g), \A d \in Minds(g) : "MODIFIED" \in status[d],
           (Touches(f) \cup Touches(g)) \cap QuietDocs = {},
           calls = <<>> \/ (Follows(Top, f) /\ Top.op \notin {"closing", "opening"})
    PROVE  Orderly(calls', status, ret', QuietDocs)
<1>1. calls \in Seq(Frame) /\ Orderly(calls, status, ret, QuietDocs)
  BY DEF TypeOK, CallsInvariant
<1>2. PICK s \in Seq(Frame) : s = Append(calls, f)
  BY <1>1, PushedIs
<1>3. Orderly(s, status, ret, QuietDocs)
  BY <1>1, <1>2, Pushes, TopIs
<1>4. s # <<>> /\ s[Len(s)] = f
  BY <1>1, <1>2, PushedIs
<1>5. Orderly(Append(s, g), status, ret, QuietDocs)
  BY <1>3, <1>4, Pushes
<1> QED  BY <1>2, <1>5

\* The marks and the timers of a step that leaves the stack alone, or of what is
\* done before or after the stack moves.
LEMMA Before ==
    ASSUME calls \in Seq(Frame), calls # <<>>, Orderly(calls, status, ret, QuietDocs), NEW p,
           \A d \in Docs : "MODIFIED" \in status'[d] /\ "MODIFIED" \notin status[d] =>
               Top.op = "do_save" /\ d = Top.doc,
           \A d \in QuietDocs \ p :
               Top.op \in {"start_watch", "do_save", "autosync"} /\ d = Top.doc
    PROVE  Orderly(calls, status', ret, p)
<1>1. Orderly(calls, status', ret, QuietDocs)
  BY MarksChange, TopIs
<1> QED  BY <1>1, TimersChange, TopIs

LEMMA Unmoving ==
    ASSUME Orderly(calls, status, ret, QuietDocs), UNCHANGED <<calls, ret, status>>,
           UNCHANGED <<file_monitor_id, sync_timeout_id, orphans>>
    PROVE  Orderly(calls', status', ret', QuietDocs')
BY DEF QuietDocs

LEMMA QuietStay ==
    ASSUME UNCHANGED <<file_monitor_id, sync_timeout_id, orphans>>
    PROVE  QuietDocs' = QuietDocs
BY DEF QuietDocs

\* Opening a document, up to the end of the reading.
LEMMA OpeningOrderly ==
    ASSUME WatchInvariant, CallsInvariant, moo_editor_load_file
    PROVE  Orderly(calls', status', ret', QuietDocs')
<1>1. TypeOK /\ In("open")
  BY DEF WatchInvariant, moo_editor_load_file
<1>2. calls \in Seq(Frame) /\ calls # <<>> /\ Top.op = "open" /\ Top.doc \in Docs /\ Top \in Frame
  <2>1. calls \in Seq(Frame)
    BY <1>1 DEF TypeOK
  <2> QED  BY <1>1, <2>1, TheCall DEF OfNoDoc
<1> DEFINE d == Top.doc
<1>3. Orderly(calls, status, ret, QuietDocs)
  BY DEF CallsInvariant
<1>4. Len(calls) = 1
  <2>1. Len(calls) \in Nat \ {0}
    BY <1>2, PoppedIs
  <2>2. Len(calls) > 1 => Follows(calls[Len(calls) - 1], calls[(Len(calls) - 1) + 1])
    BY <1>3, <2>1 DEF Orderly, Stacked
  <2>3. (Len(calls) - 1) + 1 = Len(calls)
    BY <2>1
  <2> QED
    BY <1>2, <2>1, <2>2, <2>3, TopIs DEF Follows, Loading, Telling, Closing, Saving
<1>5. d \in QuietDocs
  BY <1>2, <1>3, TopIs DEF Orderly, Begins
<1>6. QuietDocs' = QuietDocs
  BY DEF moo_editor_load_file, QuietDocs
<1>7. Below \in Seq(Frame) /\ Len(Below) = 0
  BY <1>2, <1>4, PoppedIs, TopIs
<1>8. Below = <<>>
  BY <1>7
<1>9. CASE Return(TRUE)
  <2>1. calls' = <<>>
    BY <1>8, <1>9 DEF Return
  <2> QED  BY <2>1, EmptyOrderly
<1>10. CASE /\ status' = [status EXCEPT ![d] = {}]
            /\ calls' = Append(Append(Below, Call("opening", d)), Call("read", d))
            /\ UNCHANGED ret
  <2>1. Call("opening", d) \in Frame /\ Call("read", d) \in Frame
    BY <1>2, NewCalls DEF Entries, OfNoDoc
  <2> DEFINE f == Call("opening", d)
             g == Call("read", d)
  <2>2. f.op = "opening" /\ g.op = "read" /\ f.doc = d /\ g.doc = d
    BY DEF Call
  <2> HIDE DEF f, g
  <2>3. PICK u \in Seq(Frame) : u = Append(Below, f)
    BY <1>7, <2>1, PushedIs DEF f
  <2>4. PICK t \in Seq(Frame) : t = Append(u, g)
    BY <2>1, PushedIs DEF g
  <2>5. calls' = t /\ t # <<>> /\ Len(t) = 2 /\ t[1] = f /\ t[2] = g
    <3>1. Len(u) = 1 /\ u[1] = f
      BY <1>7, <2>1, <2>3, PushedIs DEF f
    <3>2. t # <<>> /\ Len(t) = 2 /\ t[1] = u[1] /\ t[2] = g
      <4>1. /\ t # <<>> /\ Len(t) = Len(u) + 1 /\ t[Len(u) + 1] = g
            /\ \A i \in 1 .. Len(u) : t[i] = u[i]
        BY <2>1, <2>4, PushedIs DEF g
      <4>2. Len(u) + 1 = 2 /\ 1 \in 1 .. Len(u)
        BY <3>1
      <4> QED  BY <4>1, <4>2
    <3>3. calls' = t
      BY <1>10, <2>3, <2>4 DEF f, g
    <3> QED  BY <3>1, <3>2, <3>3
  <2>6. Stacked(t)
    BY <2>2, <2>5 DEF Stacked, Follows, Loading
  <2>7. \A i \in 1 .. Len(t) : ~Asks(t[i])
    BY <2>2, <2>5 DEF Asks
  <2>8. \A st, r : Careful(t, st, r) /\ Freshly(t, st)
    BY <2>2, <2>5, <2>7 DEF Careful, Freshly
  <2>9. "MODIFIED" \notin status'[d]
    BY <1>1, <1>2, <1>10 DEF TypeOK
  <2>10. \A j \in 3 .. 2 : FALSE
    OBVIOUS
  <2>11. Opens(t, status', ret', QuietDocs)
    BY <1>5, <2>2, <2>5, <2>9, <2>10 DEF Opens
  <2>12. Begins(t, QuietDocs)
    BY <2>2, <2>5 DEF Begins
  <2> QED  BY <1>6, <2>5, <2>6, <2>8, <2>11, <2>12 DEF Orderly
<1> QED  BY <1>9, <1>10 DEF moo_editor_load_file

\* Reading: reload, and the load of a document that is being opened.
LEMMA LoadingOrderly ==
    ASSUME TypeOK, CallsInvariant,
           moo_editor_reload \/ reload_dialog \/ _moo_edit_load_file \/ try_encoding_dialog
           \/ reload_error_dialog \/ moo_edit_load_text \/ _moo_edit_start_file_watch
    PROVE  Orderly(calls', status', ret', QuietDocs')
<1>0. status \in [Docs -> SUBSET Flags]
  BY DEF TypeOK
<1>1. calls \in Seq(Frame) /\ Orderly(calls, status, ret, QuietDocs)
  BY DEF TypeOK, CallsInvariant
<1>2. ASSUME NEW op, In(op), op \notin OfNoDoc \cup {"open"}
      PROVE  calls # <<>> /\ Top \in Frame /\ Top.op = op /\ Top.doc \in Docs
  BY <1>2, TheCall
<1>3. ASSUME NEW op, In(op), op \notin OfNoDoc \cup {"open"},
             NEW r \in BOOLEAN, Return(r), r /\ op \in Saving => op = "start_watch"
      PROVE  \A st, q : Orderly(calls, st, ret, q) => Orderly(calls', st, ret', q)
  BY <1>1, <1>2, <1>3, Returns
<1>4. CASE moo_editor_reload
  <2>1. UNCHANGED status /\ QuietDocs' = QuietDocs /\ In("reload")
    BY <1>4, QuietStay DEF moo_editor_reload
  <2>2. Becomes("reload_dialog") \/ Becomes("read")
    BY <1>4 DEF moo_editor_reload
  <2>3. calls # <<>> /\ Top.op = "reload"
    BY <1>2, <2>1 DEF OfNoDoc
  <2>4. Orderly(calls', status, ret', QuietDocs)
    BY <1>1, <2>2, <2>3, Continues
  <2> QED  BY <2>1, <2>4
<1>5. CASE reload_dialog
  <2>1. UNCHANGED status /\ QuietDocs' = QuietDocs /\ In("reload_dialog")
        /\ (Becomes("read") \/ Return(FALSE))
    BY <1>5, QuietStay DEF reload_dialog
  <2>2. calls # <<>> /\ Top.op = "reload_dialog"
    BY <1>2, <2>1 DEF OfNoDoc
  <2>3. CASE Becomes("read")
    BY <1>1, <2>1, <2>2, <2>3, Continues
  <2>4. CASE Return(FALSE)
    BY <1>1, <1>3, <2>1, <2>4 DEF OfNoDoc
  <2> QED  BY <2>1, <2>3, <2>4
<1>6. CASE _moo_edit_load_file
  <2> DEFINE d == Top.doc
  <2>1. UNCHANGED <<status, sync_timeout_id, orphans>> /\ In("read")
    BY <1>6 DEF _moo_edit_load_file
  <2>2. calls # <<>> /\ Top \in Frame /\ Top.op = "read" /\ d \in Docs
    BY <1>2, <2>1 DEF OfNoDoc
  <2>3. QuietDocs \subseteq QuietDocs'
    <3>1. \A e \in Docs : file_monitor_id'[e] \in {file_monitor_id[e], 0}
      BY <1>6, <2>2 DEF _moo_edit_load_file, StopWatch, TypeOK
    <3> QED  BY <2>1, <3>1 DEF QuietDocs
  <2>4. Orderly(calls, status', ret, QuietDocs')
    BY <1>1, <2>1, <2>2, <2>3, Before
  <2>5. CASE Becomes("reload_error_dialog")
    BY <1>1, <2>2, <2>4, <2>5, Continues
  <2>6. CASE \E op \in {"load_text", "try_encoding_dialog"} :
               Become([Top EXCEPT !.op = op, !.text = disk[d]])
    <3>1. PICK op \in {"load_text", "try_encoding_dialog"} :
               Become([Top EXCEPT !.op = op, !.text = disk[d]])
      BY <2>6
    <3>2. PICK g : g = [Top EXCEPT !.op = op, !.text = disk[d]]
      OBVIOUS
    <3>3. disk[d] \in Texts \cup {0} /\ op \in Entries \cup Dialogs /\ op \notin OfNoDoc
      BY <2>2 DEF TypeOK, Entries, Dialogs, OfNoDoc
    <3>4. g \in Frame
      BY <2>2, <3>2, <3>3, GoesOnAs DEF OfNoDoc
    <3>5. /\ g.op = op /\ g.doc = d /\ g.docs = Top.docs
          /\ g.save = Top.save /\ g.asked = Top.asked
      BY <2>2, <3>2 DEF Frame
    <3>6. Minds(g) \subseteq Minds(Top)
      BY <3>5 DEF Minds
    <3>7. Top.op \in Loading /\ g.op \in Loading /\ g.op # "start_watch" /\ Top.op # "start_watch"
      BY <2>2, <3>5 DEF Loading
    <3> QED  BY <1>1, <2>2, <2>4, <3>1, <3>2, <3>4, <3>5, <3>6, <3>7, GoesOn
  <2> QED  BY <1>6, <2>5, <2>6 DEF _moo_edit_load_file
<1>7. CASE try_encoding_dialog
  <2>1. UNCHANGED <<status, sync_timeout_id, orphans>> /\ In("try_encoding_dialog")
    BY <1>7 DEF try_encoding_dialog
  <2>2. calls # <<>> /\ Top \in Frame /\ Top.op = "try_encoding_dialog" /\ Top.doc \in Docs
    BY <1>2, <2>1 DEF OfNoDoc
  <2>3. QuietDocs \subseteq QuietDocs'
    <3>1. \A e \in Docs : file_monitor_id'[e] \in {file_monitor_id[e], 0}
      BY <1>7, <2>2 DEF try_encoding_dialog, StopWatch, TypeOK
    <3> QED  BY <2>1, <3>1 DEF QuietDocs
  <2>4. Orderly(calls, status', ret, QuietDocs')
    BY <1>1, <2>1, <2>2, <2>3, Before
  <2>5. CASE Becomes("load_text")
    BY <1>1, <2>2, <2>4, <2>5, Continues
  <2>6. CASE Return(FALSE)
    BY <1>3, <2>1, <2>4, <2>6 DEF OfNoDoc
  <2> QED  BY <1>7, <2>5, <2>6 DEF try_encoding_dialog
<1>8. CASE reload_error_dialog
  <2>1. UNCHANGED status /\ QuietDocs' = QuietDocs /\ In("reload_error_dialog") /\ Return(FALSE)
    BY <1>8, QuietStay DEF reload_error_dialog
  <2> QED  BY <1>1, <1>3, <2>1 DEF OfNoDoc
<1>9. CASE moo_edit_load_text
  <2> DEFINE d == Top.doc
  <2>1. /\ UNCHANGED <<file_monitor_id, orphans>> /\ In("load_text") /\ Becomes("start_watch")
        /\ status' = [status EXCEPT ![d] = {}] /\ sync_timeout_id' = Armed(d)
    BY <1>9 DEF moo_edit_load_text
  <2>2. calls # <<>> /\ Top \in Frame /\ Top.op = "load_text" /\ d \in Docs
    BY <1>2, <2>1 DEF OfNoDoc
  <2>3. \A e \in Docs : "MODIFIED" \in status'[e] => "MODIFIED" \in status[e]
    BY <2>1 DEF TypeOK
  <2>4. "MODIFIED" \notin status'[d]
    BY <2>1, <2>2 DEF TypeOK
  <2>5. Orderly(calls, status', ret, QuietDocs)
    BY <1>1, <2>2, <2>3, Before
  <2>6. /\ Orderly(calls', status', ret', QuietDocs)
        /\ calls' \in Seq(Frame) /\ calls' # <<>>
        /\ calls'[Len(calls')].op = "start_watch" /\ calls'[Len(calls')].doc = d
    BY <1>1, <2>1, <2>2, <2>4, <2>5, Continues
  <2>7. \A e \in QuietDocs \ QuietDocs' : e = d
    BY <2>1, <2>2 DEF QuietDocs, Armed, TypeOK
  <2> QED  BY <2>6, <2>7, TimersChange
<1>10. CASE _moo_edit_start_file_watch
  <2> DEFINE d == Top.doc
  <2>1. UNCHANGED <<sync_timeout_id, orphans>> /\ In("start_watch") /\ Return(TRUE)
    BY <1>10 DEF _moo_edit_start_file_watch
  <2>2. calls # <<>> /\ Top \in Frame /\ Top.op = "start_watch" /\ d \in Docs
    BY <1>2, <2>1 DEF OfNoDoc
  <2>3. \/ status' = [status EXCEPT ![d] = @ \ {"WATCH_FAILED"}]
        \/ status' = [status EXCEPT ![d] = @ \cup {"WATCH_FAILED"}]
    BY <1>10 DEF _moo_edit_start_file_watch
  <2>4. \A e \in Docs : "MODIFIED" \in status'[e] => "MODIFIED" \in status[e]
    <3>1. status \in [Docs -> SUBSET Flags]
      BY <1>0
    <3>2. \A e \in Docs : status'[e] \in {status[e], status[e] \ {"WATCH_FAILED"},
                                         status[e] \cup {"WATCH_FAILED"}}
      BY <2>3, <3>1
    <3> QED  BY <3>2
  <2>5. \E id : file_monitor_id' = [file_monitor_id EXCEPT ![d] = id]
    BY <1>10 DEF _moo_edit_start_file_watch, StopWatch
  <2>6. \A e \in QuietDocs \ QuietDocs' : e = d
    BY <2>1, <2>2, <2>5 DEF QuietDocs, TypeOK
  <2>7. Orderly(calls, status', ret, QuietDocs')
    BY <1>1, <2>2, <2>4, <2>6, Before
  <2> QED  BY <1>3, <2>1, <2>7 DEF OfNoDoc
<1> QED  BY <1>4, <1>5, <1>6, <1>7, <1>8, <1>9, <1>10

\* Saving, by the user and by the timer.
LEMMA SavingOrderly ==
    ASSUME TypeOK, CallsInvariant,
           moo_editor_save \/ overwrite_dialog \/ do_save \/ encoding_dialog \/ do_save_utf8
           \/ save_error_dialog \/ autosync_callback_end
    PROVE  Orderly(calls', status', ret', QuietDocs')
<1>0. status \in [Docs -> SUBSET Flags]
  BY DEF TypeOK
<1>1. calls \in Seq(Frame) /\ Orderly(calls, status, ret, QuietDocs) /\ ret \in BOOLEAN
  BY DEF TypeOK, CallsInvariant
<1>2. ASSUME NEW op, In(op), op \notin OfNoDoc \cup {"open"}
      PROVE  calls # <<>> /\ Top \in Frame /\ Top.op = op /\ Top.doc \in Docs
  BY <1>2, TheCall
<1>3. ASSUME NEW op, In(op), op \notin OfNoDoc \cup {"open"},
             NEW r \in BOOLEAN, Return(r), r /\ op \in Saving => op = "start_watch"
      PROVE  \A st, q : Orderly(calls, st, ret, q) => Orderly(calls', st, ret', q)
  BY <1>1, <1>2, <1>3, Returns
<1>4. CASE moo_editor_save
  <2>1. UNCHANGED status /\ QuietDocs' = QuietDocs /\ In("save")
    BY <1>4, QuietStay DEF moo_editor_save
  <2>2. Becomes("overwrite_dialog") \/ Becomes("do_save")
    BY <1>4 DEF moo_editor_save
  <2>3. calls # <<>> /\ Top.op = "save"
    BY <1>2, <2>1 DEF OfNoDoc
  <2>4. Orderly(calls', status, ret', QuietDocs)
    BY <1>1, <2>2, <2>3, Continues
  <2> QED  BY <2>1, <2>4
<1>5. CASE overwrite_dialog
  <2>1. UNCHANGED status /\ QuietDocs' = QuietDocs /\ In("overwrite_dialog")
        /\ (Become([Top EXCEPT !.op = "do_save", !.asked = {Top.doc}]) \/ Return(FALSE))
    BY <1>5, QuietStay DEF overwrite_dialog
  <2>2. calls # <<>> /\ Top \in Frame /\ Top.op = "overwrite_dialog" /\ Top.doc \in Docs
    BY <1>2, <2>1 DEF OfNoDoc
  <2>3. CASE Become([Top EXCEPT !.op = "do_save", !.asked = {Top.doc}])
    <3>1. PICK g : g = [Top EXCEPT !.op = "do_save", !.asked = {Top.doc}]
      OBVIOUS
    <3>2. g \in Frame
      BY <2>2, <3>1, GoesOnAs DEF Entries, OfNoDoc
    <3>3. /\ g.op = "do_save" /\ g.doc = Top.doc /\ g.docs = Top.docs
          /\ g.save = Top.save /\ g.asked = {Top.doc}
      BY <2>2, <3>1 DEF Frame
    <3>4. Minds(g) \subseteq Minds(Top)
      BY <2>2, <3>3 DEF Minds
    <3>5. Top.op \in Saving /\ g.op \in Saving /\ g.op # "start_watch" /\ Top.op # "start_watch"
      BY <2>2, <3>3 DEF Saving
    <3> QED  BY <1>1, <2>1, <2>2, <2>3, <3>1, <3>2, <3>3, <3>4, <3>5, GoesOn
  <2>4. CASE Return(FALSE)
    BY <1>1, <1>3, <2>1, <2>4 DEF OfNoDoc
  <2> QED  BY <2>1, <2>3, <2>4
<1>6. ASSUME NEW op \in {"do_save", "do_save_utf8"}, calls # <<>>, Top.op = op,
             Orderly(calls, status', ret, QuietDocs'),
             \/ Becomes("start_watch") /\ "MODIFIED" \notin status'[Top.doc]
             \/ Becomes("save_error_dialog") \/ Becomes("encoding_dialog")
             \/ UNCHANGED <<calls, ret>>
      PROVE  Orderly(calls', status', ret', QuietDocs')
  <2>1. CASE UNCHANGED <<calls, ret>>
    BY <1>6, <2>1
  <2>2. ASSUME NEW next \in {"save_error_dialog", "encoding_dialog"}, Becomes(next)
        PROVE  Orderly(calls', status', ret', QuietDocs')
    BY <1>1, <1>6, <2>2, Continues
  <2>3. CASE Becomes("start_watch") /\ "MODIFIED" \notin status'[Top.doc]
    BY <1>1, <1>6, <2>3, Continues
  <2> QED  BY <1>6, <2>1, <2>2, <2>3
<1>7. CASE do_save
  <2> DEFINE d == Top.doc
  <2>1. In("do_save") /\ UNCHANGED <<orphans, file_monitor_id>>
    BY <1>7 DEF do_save
  <2>2. calls # <<>> /\ Top \in Frame /\ Top.op = "do_save" /\ d \in Docs
    BY <1>2, <2>1 DEF OfNoDoc
  <2>3. UNCHANGED sync_timeout_id \/ sync_timeout_id' = Armed(d)
    BY <1>7 DEF do_save
  <2>4. \A e \in QuietDocs \ QuietDocs' : e = d
    BY <2>1, <2>2, <2>3 DEF QuietDocs, Armed, TypeOK
  <2>5. /\ \/ status' = [status EXCEPT ![d] = {}] \/ UNCHANGED status
           \/ status' = [status EXCEPT ![d] = @ \cup {"MODIFIED"}]
        /\ \/ Becomes("start_watch") /\ status' = [status EXCEPT ![d] = {}]
           \/ Becomes("save_error_dialog") \/ Becomes("encoding_dialog")
           \/ UNCHANGED <<calls, ret>>
    BY <1>7, Zenon DEF do_save, Saved, NotSaved, NotConverted
  <2>6. \A e \in Docs : "MODIFIED" \in status'[e] /\ "MODIFIED" \notin status[e] => e = d
    BY <1>0, <2>5
  <2>7. status' = [status EXCEPT ![d] = {}] => "MODIFIED" \notin status'[d]
    BY <1>0, <2>2
  <2>8. Orderly(calls, status', ret, QuietDocs')
    BY <1>1, <2>2, <2>4, <2>6, Before
  <2> QED  BY <1>6, <2>2, <2>5, <2>7, <2>8
<1>8. CASE do_save_utf8
  <2> DEFINE d == Top.doc
  <2>1. In("do_save_utf8") /\ QuietDocs' = QuietDocs
    BY <1>8, QuietStay DEF do_save_utf8
  <2>2. calls # <<>> /\ Top \in Frame /\ Top.op = "do_save_utf8" /\ d \in Docs
    BY <1>2, <2>1 DEF OfNoDoc
  <2>3. /\ status' = [status EXCEPT ![d] = {}] \/ UNCHANGED status
        /\ \/ Becomes("start_watch") /\ status' = [status EXCEPT ![d] = {}]
           \/ Becomes("save_error_dialog") \/ UNCHANGED <<calls, ret>>
    BY <1>8, Zenon DEF do_save_utf8, Saved, NotSaved
  <2>4. \A e \in Docs : "MODIFIED" \in status'[e] => "MODIFIED" \in status[e]
    BY <1>0, <2>3
  <2>5. status' = [status EXCEPT ![d] = {}] => "MODIFIED" \notin status'[d]
    BY <1>0, <2>2
  <2>6. Orderly(calls, status', ret, QuietDocs')
    BY <1>1, <2>1, <2>2, <2>4, Before
  <2> QED  BY <1>6, <2>2, <2>3, <2>5, <2>6
<1>9. CASE encoding_dialog
  <2>1. UNCHANGED status /\ QuietDocs' = QuietDocs /\ In("encoding_dialog")
        /\ (Becomes("do_save_utf8") \/ Return(FALSE))
    BY <1>9, QuietStay DEF encoding_dialog
  <2>2. calls # <<>> /\ Top.op = "encoding_dialog"
    BY <1>2, <2>1 DEF OfNoDoc
  <2>3. CASE Becomes("do_save_utf8")
    BY <1>1, <2>1, <2>2, <2>3, Continues
  <2>4. CASE Return(FALSE)
    BY <1>1, <1>3, <2>1, <2>4 DEF OfNoDoc
  <2> QED  BY <2>1, <2>3, <2>4
<1>10. CASE save_error_dialog
  <2>1. UNCHANGED status /\ QuietDocs' = QuietDocs /\ In("save_error_dialog") /\ Return(FALSE)
    BY <1>10, QuietStay DEF save_error_dialog
  <2> QED  BY <1>1, <1>3, <2>1 DEF OfNoDoc
<1>11. CASE autosync_callback_end
  <2> DEFINE d == Top.doc
  <2>1. In("autosync") /\ Forgot(d) /\ Return(ret) /\ UNCHANGED <<status, file_monitor_id>>
    BY <1>11 DEF autosync_callback_end
  <2>2. calls # <<>> /\ Top.op = "autosync" /\ d \in Docs
    BY <1>2, <2>1 DEF OfNoDoc
  <2>3. \A e \in QuietDocs \ QuietDocs' : e = d
    BY <2>1, <2>2 DEF QuietDocs, Forgot, TypeOK
  <2>4. Orderly(calls, status', ret, QuietDocs')
    BY <1>1, <2>1, <2>2, <2>3, Before
  <2> QED  BY <1>1, <1>3, <2>1, <2>4 DEF OfNoDoc, Saving
<1> QED  BY <1>4, <1>5, <1>7, <1>8, <1>9, <1>10, <1>11

\* A timer fires.
LEMMA TimerOrderly ==
    ASSUME TypeOK, CallsInvariant, NEW d \in Docs, NEW src, Dispatched(d, src)
    PROVE  Orderly(calls', status', ret', QuietDocs')
<1>1. MainLoop /\ UNCHANGED <<status, file_monitor_id>>
  BY DEF Dispatched
<1>2. d \notin QuietDocs
  <2>1. sync_timeout_id[d] = "armed" \/ orphans[d] > 0
    BY DEF Dispatched
  <2> QED  BY <2>1 DEF QuietDocs
<1>3. \A e \in Docs : e # d => sync_timeout_id'[e] = sync_timeout_id[e] /\ orphans'[e] = orphans[e]
  BY DEF Dispatched, TypeOK
<1>4. QuietDocs \subseteq QuietDocs'
  BY <1>1, <1>2, <1>3 DEF QuietDocs
<1>5. calls \in Seq(Frame) /\ Orderly(calls, status, ret, QuietDocs)
  BY DEF TypeOK, CallsInvariant
<1> DEFINE f == Call("autosync", d)
           g == Call("save", d)
<1>6. f \in Frame /\ g \in Frame
  BY NewCalls DEF Entries, OfNoDoc
<1>7. /\ f.op = "autosync" /\ Minds(f) = {} /\ Touches(f) = {d}
      /\ g.op = "save" /\ Minds(g) = {d} /\ Touches(g) = {d} /\ Follows(f, g)
  BY DEF Call, Minds, Touches, Follows, Saving
<1>8. calls # <<>> => Follows(Top, f) /\ Top.op \notin {"closing", "opening"}
  BY <1>1, <1>7 DEF MainLoop, Follows, Dialogs
<1> HIDE DEF f, g
<1>9. CASE UNCHANGED <<calls, ret>>
  BY <1>1, <1>4, <1>5, <1>9, TimersChange
<1>10. CASE calls' = Append(calls, f) /\ UNCHANGED ret
  <2>1. Enter(f)
    BY <1>10 DEF Enter
  <2>2. Orderly(calls', status, ret', QuietDocs)
    BY <1>2, <1>6, <1>7, <1>8, <2>1, Enters
  <2>3. calls' \in Seq(Frame)
    BY <1>5, <1>6, <1>10
  <2> QED  BY <1>1, <1>4, <2>2, <2>3, TimersChange
<1>11. CASE calls' = Append(Append(calls, f), g) /\ "MODIFIED" \in status[d] /\ UNCHANGED ret
  <2>1. Orderly(calls', status, ret', QuietDocs)
    BY <1>2, <1>6, <1>7, <1>8, <1>11, EntersTwo
  <2>2. calls' \in Seq(Frame)
    BY <1>5, <1>6, <1>11
  <2> QED  BY <1>1, <1>4, <2>1, <2>2, TimersChange
<1> QED
  <2>1. /\ calls \o <<f>> = Append(calls, f)
        /\ Append(calls, f) \o <<>> = Append(calls, f)
        /\ Append(calls, f) \o <<g>> = Append(Append(calls, f), g)
    <3>1. Append(calls, f) \in Seq(Frame)
      BY <1>5, <1>6
    <3>2. \A s \in Seq(Frame), h \in Frame : s \o <<h>> = Append(s, h) /\ s \o <<>> = s
      OBVIOUS
    <3> QED  BY <1>5, <1>6, <3>1, <3>2
  <2>2. \/ UNCHANGED <<calls, ret>>
        \/ UNCHANGED ret /\ calls' = calls \o <<f>> \o <<g>> /\ "MODIFIED" \in status[d]
        \/ UNCHANGED ret /\ calls' = calls \o <<f>> \o <<>>
    BY DEF Dispatched, f, g
  <2> QED  BY <1>9, <1>10, <1>11, <2>1, <2>2

LEMMA ClosedGetQuiet ==
    ASSUME TypeOK, NEW ds, Closed(ds), UNCHANGED orphans
    PROVE  QuietDocs \subseteq QuietDocs'
BY DEF Closed, QuietDocs

\* No document has the flag that would keep it from being asked about.
LEMMA NeverClean == TypeOK => \A d \in Docs : "CLEAN" \notin status[d]
BY DEF TypeOK, Flags

\* Closing, and the end of opening what could not be read.
LEMMA ClosingOrderly ==
    ASSUME TypeOK, CallsInvariant,
           close_docs_real \/ save_changes_dialog \/ close_docs_real_saving
           \/ moo_editor_load_file_end
    PROVE  Orderly(calls', status', ret', QuietDocs')
<1>1. calls \in Seq(Frame) /\ Orderly(calls, status, ret, QuietDocs) /\ ret \in BOOLEAN
  BY DEF TypeOK, CallsInvariant
<1>2. UNCHANGED <<status, orphans>>
  BY DEF close_docs_real, save_changes_dialog, close_docs_real_saving, moo_editor_load_file_end
<1>3. calls # <<>> /\ Top \in Frame /\ Top.op \in {"close", "save_changes_dialog", "closing", "opening"}
      /\ Top.docs \subseteq Docs
  <2>1. \E op \in {"close", "save_changes_dialog", "closing", "opening"} : In(op)
    BY DEF close_docs_real, save_changes_dialog, close_docs_real_saving, moo_editor_load_file_end
  <2>2. calls # <<>> /\ Top \in Frame /\ Top.op \in {"close", "save_changes_dialog", "closing", "opening"}
    BY <2>1, TheCall
  <2> QED  BY <2>2 DEF Frame
<1>4. QuietDocs \subseteq QuietDocs'
  <2>1. (\E ds : Closed(ds)) \/ UNCHANGED <<file_monitor_id, sync_timeout_id>>
    BY Zenon DEF close_docs_real, save_changes_dialog, close_docs_real_saving,
       moo_editor_load_file_end, CloseAll
  <2>2. CASE \E ds : Closed(ds)
    BY <1>2, <2>2, ClosedGetQuiet
  <2>3. CASE UNCHANGED <<file_monitor_id, sync_timeout_id>>
    BY <1>2, <2>3 DEF QuietDocs
  <2> QED  BY <2>1, <2>2, <2>3
<1>5. Orderly(calls, status', ret, QuietDocs')
  BY <1>1, <1>2, <1>3, <1>4, Before
<1>6. CASE UNCHANGED <<calls, ret>>
  BY <1>5, <1>6
<1>7. CASE \E r \in BOOLEAN : Return(r)
  <2>1. Top.op \notin Saving
    BY <1>3 DEF Saving
  <2> QED  BY <1>1, <1>3, <1>5, <1>7, <2>1, Returns
<1>8. ASSUME NEW g \in Frame, calls' = Append(Below, g), Asks(g), Top.op \in {"close", "save_changes_dialog"},
             g.doc = Top.doc, g.docs = Top.docs,
             g.save \cup g.asked \subseteq Top.save \cup Top.asked \cup find_modified(Top.docs),
             \A d \in g.docs : "MODIFIED" \in status[d] =>
                d \in g.asked \cup (IF g.op = "closing" THEN g.save ELSE {})
      PROVE  Orderly(calls', status', ret', QuietDocs')
  <2>1. calls' = Append(Popped(calls), g)
    BY <1>8, TopIs
  <2>2. \A f \in Frame : Follows(f, Top) => Follows(f, g)
    BY <1>8 DEF Follows, Loading, Saving, Telling, Closing, Asks
  <2>3. g.op \notin {"opening", "open", "start_watch", "save", "overwrite_dialog", "do_save"}
        /\ Top.op # "start_watch"
    BY <1>8 DEF Asks
  <2>4. \A d \in Minds(g) : d \in Minds(Top) \/ (d \in Top.docs /\ "MODIFIED" \in status'[d])
    BY <1>2, <1>8, <2>3 DEF Minds, find_modified
  <2>5. Touches(g) \subseteq Touches(Top)
    BY <1>8, <2>4 DEF Touches
  <2> QED  BY <1>1, <1>2, <1>3, <1>5, <1>8, <2>1, <2>2, <2>3, <2>4, <2>5, Swaps, TopIs
<1>9. CASE moo_editor_load_file_end
  BY <1>1, <1>7, <1>9 DEF moo_editor_load_file_end
<1>10. CASE close_docs_real
  <2>1. Top.op = "close"
    BY <1>10, TheCall, <1>1 DEF close_docs_real
  <2>2. CASE CloseAll(Top.docs)
    BY <1>6, <1>7, <2>2 DEF CloseAll
  <2>3. CASE Become([Top EXCEPT !.op = "save_changes_dialog", !.asked = find_modified(Top.docs)])
    <3>1. PICK g : g = [Top EXCEPT !.op = "save_changes_dialog", !.asked = find_modified(Top.docs)]
      OBVIOUS
    <3>2. find_modified(Top.docs) \subseteq Docs
      BY <1>3 DEF find_modified
    <3>3. g \in Frame
      BY <1>3, <2>1, <3>1, <3>2, GoesOnAs DEF Dialogs, OfNoDoc
    <3>4. /\ g.op = "save_changes_dialog" /\ g.doc = Top.doc /\ g.docs = Top.docs
          /\ g.save = Top.save /\ g.asked = find_modified(Top.docs)
      BY <1>3, <3>1 DEF Frame
    <3>5. \A d \in g.docs : "MODIFIED" \in status[d] => d \in g.asked
      BY <1>3, <3>4, NeverClean DEF find_modified
    <3>6. calls' = Append(Below, g)
      BY <2>3, <3>1 DEF Become
    <3> QED  BY <1>8, <2>1, <3>3, <3>4, <3>5, <3>6 DEF Asks
  <2> QED  BY <1>10, <2>2, <2>3 DEF close_docs_real
<1>11. CASE save_changes_dialog
  <2>1. Top.op = "save_changes_dialog"
    BY <1>11, TheCall, <1>1 DEF save_changes_dialog
  <2>2. CASE CloseAll(Top.docs)
    BY <1>6, <1>7, <2>2 DEF CloseAll
  <2>3. CASE Return(FALSE)
    BY <1>7, <2>3
  <2>4. ASSUME NEW ticked \in SUBSET Top.asked,
               calls' = Append(Below, [Top EXCEPT !.op = "closing", !.save = ticked, !.asked = @ \ ticked])
        PROVE  Orderly(calls', status', ret', QuietDocs')
    <3>1. PICK g : g = [Top EXCEPT !.op = "closing", !.save = ticked, !.asked = @ \ ticked]
      OBVIOUS
    <3>2. g \in Frame
      BY <1>3, <2>1, <3>1 DEF Frame, Entries, OfNoDoc
    <3>3. /\ g.op = "closing" /\ g.doc = Top.doc /\ g.docs = Top.docs
          /\ g.save = ticked /\ g.asked = Top.asked \ ticked
      BY <1>3, <3>1 DEF Frame
    <3>4. \A d \in g.docs : "MODIFIED" \in status[d] => d \in Top.asked
      <4>1. Len(calls) \in 1 .. Len(calls) /\ Asks(calls[Len(calls)])
        BY <1>1, <1>3, <2>1, PoppedIs, TopIs DEF Asks
      <4>2. Spared(calls, Len(calls)) = Top.asked
        BY <2>1, TopIs DEF Spared
      <4> QED  BY <1>1, <2>1, <3>3, <4>1, <4>2, TopIs DEF Orderly, Careful
    <3> QED  BY <1>8, <2>1, <2>4, <3>1, <3>2, <3>3, <3>4 DEF Asks
  <2> QED  BY <1>11, <2>2, <2>3, <2>4 DEF save_changes_dialog
<1>12. CASE close_docs_real_saving
  <2>1. Top.op = "closing"
    BY <1>12, TheCall, <1>1 DEF close_docs_real_saving
  <2>2. CASE CloseAll(Top.docs)
    BY <1>6, <1>7, <2>2 DEF CloseAll
  <2>3. CASE Return(FALSE)
    BY <1>7, <2>3
  <2>4. ASSUME ret, NEW d \in Top.save, UNCHANGED ret,
               calls' = Append(Append(Below, [Top EXCEPT !.save = @ \ {d}]), Call("save", d))
        PROVE  Orderly(calls', status', ret', QuietDocs')
    BY <1>1, <1>3, <1>5, <2>1, <2>4, SavesNext, TopIs
  <2> QED  BY <1>12, <2>2, <2>3, <2>4 DEF close_docs_real_saving, SaveFailed
<1> QED  BY <1>9, <1>10, <1>11, <1>12

\* The poll, and what it tells.
LEMMA PollingOrderly ==
    ASSUME WatchInvariant, CallsInvariant,
           do_stat \/ (\E id \in MonitorIds : do_stat_one(id)) \/ do_stat_end
           \/ file_modified_on_disk \/ file_deleted
    PROVE  Orderly(calls', status', ret', QuietDocs')
<1>1. /\ calls \in Seq(Frame) /\ Orderly(calls, status, ret, QuietDocs) /\ ret \in BOOLEAN
      /\ TypeOK /\ status \in [Docs -> SUBSET Flags]
  BY DEF WatchInvariant, TypeOK, CallsInvariant
<1>2. CASE do_stat
  <2>1. QuietDocs' = QuietDocs /\ UNCHANGED status /\ MainLoop /\ Enter(Call("do_stat", NoDoc))
    BY <1>2, QuietStay DEF do_stat
  <2>2. PICK f \in Frame : f = Call("do_stat", NoDoc)
    BY NewBatches
  <2>3. f.op = "do_stat" /\ Minds(f) = {} /\ Touches(f) = {NoDoc}
    BY <2>2 DEF Call, Minds, Touches
  <2>4. Touches(f) \cap QuietDocs = {}
    BY <2>3, DocFileAssumption DEF QuietDocs
  <2>5. calls # <<>> => Follows(Top, f) /\ Top.op \notin {"closing", "opening"}
    BY <2>1, <2>3 DEF MainLoop, Follows, Dialogs
  <2> QED  BY <1>1, <2>1, <2>2, <2>3, <2>4, <2>5, Enters
<1>3. ASSUME NEW id \in MonitorIds, do_stat_one(id) PROVE Orderly(calls', status', ret', QuietDocs')
  <2> DEFINE d == requests[id].doc
  <2>1. /\ UNCHANGED <<sync_timeout_id, orphans>> /\ id \in round.ids
        /\ calls # <<>> /\ Top.op = "do_stat"
    BY <1>1, <1>3, TheCall DEF do_stat_one
  <2>2. CASE UNCHANGED <<status, file_monitor_id, calls, ret>>
    BY <1>1, <2>1, <2>2, Unmoving
  <2>3. CASE id \in DOMAIN requests /\ requests[id].alive
    <3>1. d \in Docs /\ file_monitor_id[d] = id /\ d \notin QuietDocs
      <4>1. id \notin round.gone
        BY <2>1 DEF WatchInvariant, GoneAreNobodys
      <4>2. d \in open /\ file_monitor_id[d] = id
        BY <2>3, <4>1 DEF WatchInvariant, WatchTable
      <4>3. id # 0 /\ open \subseteq Docs
        BY <1>1, DocFileAssumption DEF TypeOK
      <4> QED  BY <4>2, <4>3 DEF QuietDocs
    <3>2. QuietDocs \subseteq QuietDocs'
      <4>1. \/ UNCHANGED file_monitor_id
            \/ \E ids \in {file_monitor_id, [file_monitor_id EXCEPT ![d] = 0]} :
                  file_monitor_id' \in {ids, [ids EXCEPT ![d] = 0]}
        BY <1>3, Zenon DEF do_stat_one, Event, Marked
      <4>2. file_monitor_id \in [Docs -> MonitorIds \cup {0}]
        BY <1>1 DEF TypeOK
      <4>3. \A e \in Docs : file_monitor_id'[e] \in {file_monitor_id[e], 0}
        BY <4>1, <4>2
      <4> QED  BY <2>1, <4>3 DEF QuietDocs
    <3>3. ASSUME NEW flag \in {"MODIFIED_ON_DISK", "DELETED"},
                 status' = [status EXCEPT ![d] = @ \cup {flag}], UNCHANGED <<calls, ret>>
          PROVE  Orderly(calls', status', ret', QuietDocs')
      <4>1. \A e \in Docs : "MODIFIED" \in status'[e] => "MODIFIED" \in status[e]
        BY <1>1, <3>1, <3>3
      <4>2. Orderly(calls, status', ret, QuietDocs')
        BY <1>1, <2>1, <3>2, <4>1, Before
      <4> QED  BY <3>3, <4>2
    <3>4. ASSUME NEW g \in Frame, NEW callback \in Telling, UNCHANGED <<status, ret>>,
                 calls' = calls \o <<Call(callback, d), g>>,
                 g.op \in {"reload", "close"}, Minds(g) = {}, Touches(g) \subseteq {d, NoDoc},
                 Follows(Call(callback, d), g)
          PROVE  Orderly(calls', status', ret', QuietDocs')
      <4>1. PICK f : f = Call(callback, d)
        OBVIOUS
      <4>2. f \in Frame
        BY <3>1, <4>1, NewCalls DEF Telling, Entries, OfNoDoc
      <4>3. f.op = callback /\ Minds(f) = {} /\ Touches(f) = {d} /\ Follows(Top, f)
        BY <2>1, <4>1 DEF Call, Minds, Touches, Follows, Telling
      <4>4. NoDoc \notin QuietDocs
        BY DocFileAssumption DEF QuietDocs
      <4>5. calls' = Append(Append(calls, f), g)
        <5>1. \A s \in Seq(Frame) : s \o <<f, g>> = Append(Append(s, f), g)
          BY <4>2
        <5> QED  BY <1>1, <3>4, <4>1, <5>1
      <4>6. Orderly(calls', status', ret', QuietDocs)
        BY <1>1, <2>1, <3>1, <3>4, <4>1, <4>2, <4>3, <4>4, <4>5, EntersTwo DEF Telling
      <4>7. calls' \in Seq(Frame)
        BY <1>1, <4>2, <4>5
      <4> QED  BY <3>2, <4>6, <4>7, TimersChange
    <3>5. \/ UNCHANGED <<status, file_monitor_id, calls, ret>>
          \/ /\ UNCHANGED <<calls, ret>>
             /\ \E flag \in {"MODIFIED_ON_DISK", "DELETED"} :
                   status' = [status EXCEPT ![d] = @ \cup {flag}]
          \/ /\ UNCHANGED <<status, ret>>
             /\ \/ calls' = calls \o <<Call("file_deleted", d), [Call("close", NoDoc) EXCEPT !.docs = {d}]>>
                \/ calls' = calls \o <<Call("file_modified_on_disk", d), Call("reload", d)>>
      BY <1>3, Zenon DEF do_stat_one, Event, Marked
    <3>6. CASE UNCHANGED <<status, ret>>
               /\ calls' = calls \o <<Call("file_deleted", d), [Call("close", NoDoc) EXCEPT !.docs = {d}]>>
      <4>1. PICK g : g = [Call("close", NoDoc) EXCEPT !.docs = {d}]
        OBVIOUS
      <4>2. g \in Frame
        BY <3>1, <4>1, NewBatches
      <4>3. /\ g.op = "close" /\ Minds(g) = {} /\ Touches(g) = {d, NoDoc}
            /\ Follows(Call("file_deleted", d), g)
        BY <4>1 DEF Call, Minds, Touches, Follows, Closing
      <4> QED  BY <3>4, <3>6, <4>1, <4>2, <4>3 DEF Telling
    <3>7. CASE UNCHANGED <<status, ret>>
               /\ calls' = calls \o <<Call("file_modified_on_disk", d), Call("reload", d)>>
      <4>1. PICK g : g = Call("reload", d)
        OBVIOUS
      <4>2. g \in Frame
        BY <3>1, <4>1, NewCalls DEF Entries, OfNoDoc
      <4>3. /\ g.op = "reload" /\ Minds(g) = {} /\ Touches(g) = {d}
            /\ Follows(Call("file_modified_on_disk", d), g)
        BY <4>1 DEF Call, Minds, Touches, Follows
      <4> QED  BY <3>4, <3>7, <4>1, <4>2, <4>3 DEF Telling
    <3> QED  BY <2>2, <3>3, <3>5, <3>6, <3>7
  <2> QED  BY <1>3, <2>2, <2>3 DEF do_stat_one
<1>4. CASE do_stat_end
  <2>1. QuietDocs' = QuietDocs /\ UNCHANGED status /\ In("do_stat") /\ Return(ret)
    BY <1>4, QuietStay DEF do_stat_end
  <2>2. calls # <<>> /\ Top.op = "do_stat"
    BY <1>1, <2>1, TheCall
  <2> QED  BY <1>1, <2>1, <2>2, Returns DEF Saving
<1>5. CASE file_modified_on_disk \/ file_deleted
  <2>1. /\ In("file_modified_on_disk") \/ In("file_deleted")
        /\ Return(ret) /\ UNCHANGED <<sync_timeout_id, orphans>>
        /\ \E flag \in {"MODIFIED_ON_DISK", "DELETED"} : Tried(flag)
    BY <1>5, Zenon DEF file_modified_on_disk, file_deleted
  <2>2. calls # <<>> /\ Top.op \in Telling /\ Top.doc \in Docs
    BY <1>1, <2>1, TheCall DEF Telling, OfNoDoc
  <2>3. /\ \A e \in Docs : file_monitor_id'[e] \in {file_monitor_id[e], 0}
        /\ \A e \in Docs : "MODIFIED" \in status'[e] => "MODIFIED" \in status[e]
    <3>1. file_monitor_id \in [Docs -> MonitorIds \cup {0}]
      BY <1>1 DEF TypeOK
    <3>2. PICK flag \in {"MODIFIED_ON_DISK", "DELETED"} : Tried(flag)
      BY <2>1
    <3>3. CASE UNCHANGED <<status, file_monitor_id>>
      BY <3>3
    <3>4. CASE /\ file_monitor_id' = [file_monitor_id EXCEPT ![Top.doc] = 0]
               /\ status' = [status EXCEPT ![Top.doc] = @ \cup {flag}]
      BY <1>1, <2>2, <3>1, <3>4
    <3> QED  BY <3>2, <3>3, <3>4, Zenon DEF Tried, Marked
  <2>4. QuietDocs \subseteq QuietDocs'
    BY <2>1, <2>3 DEF QuietDocs
  <2>5. Orderly(calls, status', ret, QuietDocs')
    BY <1>1, <2>2, <2>3, <2>4, Before
  <2>6. Top.op \notin Saving
    BY <2>2 DEF Telling, Saving
  <2> QED  BY <1>1, <2>1, <2>2, <2>5, <2>6, Returns
<1> QED  BY <1>2, <1>3, <1>4, <1>5

LEMMA NoTimerOfClosed ==
    ASSUME TypeOK, ClosedHaveNone, Next
    PROVE  ClosedHaveNone'
<1>1. ASSUME open \subseteq open', UNCHANGED sync_timeout_id PROVE ClosedHaveNone'
  BY <1>1 DEF ClosedHaveNone
<1>2. ASSUME NEW d \in open, UNCHANGED open, sync_timeout_id' = Armed(d) \/ UNCHANGED sync_timeout_id
      PROVE  ClosedHaveNone'
  BY <1>2 DEF ClosedHaveNone, Armed, TypeOK
<1>3. ASSUME NEW ds, Closed(ds) PROVE ClosedHaveNone'
  BY <1>3 DEF ClosedHaveNone, Closed
<1>4. \A d \in Docs, later \in BOOLEAN :
         DeletedByOthers(d) \/ WrittenByOthers(d, later) => UNCHANGED <<open, sync_timeout_id>>
  BY Zenon DEF DeletedByOthers, WrittenByOthers
<1>5. \A d \in Docs : Typed(d) => ClosedHaveNone'
  BY <1>2 DEF Typed
<1>6. ASSUME NEW d \in Docs, NEW src, Dispatched(d, src) PROVE ClosedHaveNone'
  BY <1>6 DEF Dispatched, ClosedHaveNone, TypeOK
<1>7. ASSUME autosync_callback_end PROVE ClosedHaveNone'
  BY <1>7 DEF autosync_callback_end, Forgot, ClosedHaveNone, TypeOK
<1>8. ASSUME moo_edit_load_text \/ do_save PROVE ClosedHaveNone'
  <2>1. Top.doc \in open
    BY <1>8, TheCall DEF moo_edit_load_text, do_save, OfNoDoc
  <2>2. UNCHANGED open /\ (sync_timeout_id' = Armed(Top.doc) \/ UNCHANGED sync_timeout_id)
    BY <1>8 DEF moo_edit_load_text, do_save
  <2> QED  BY <1>2, <2>1, <2>2
<1>9. ASSUME moo_editor_load_file PROVE ClosedHaveNone'
  BY <1>1, <1>9 DEF moo_editor_load_file
<1>10. ASSUME close_docs_real \/ save_changes_dialog \/ close_docs_real_saving \/ moo_editor_load_file_end
       PROVE  ClosedHaveNone'
  <2>1. UNCHANGED <<open, sync_timeout_id>> \/ \E ds : Closed(ds)
    BY <1>10, Zenon DEF close_docs_real, save_changes_dialog, close_docs_real_saving,
       moo_editor_load_file_end, CloseAll
  <2> QED  BY <1>1, <1>3, <2>1
<1>11. Commands \/ do_stat => UNCHANGED <<open, sync_timeout_id>>
  BY Zenon DEF Commands, do_stat
<1>12. Answer => ClosedHaveNone'
  <2>1. reload_dialog \/ try_encoding_dialog \/ reload_error_dialog \/ overwrite_dialog
        \/ encoding_dialog \/ save_error_dialog => UNCHANGED <<open, sync_timeout_id>>
    BY Zenon DEF reload_dialog, try_encoding_dialog, reload_error_dialog, overwrite_dialog,
       encoding_dialog, save_error_dialog
  <2> QED  BY <1>1, <1>10, <2>1 DEF Answer
<1>13. Program => ClosedHaveNone'
  <2>1. moo_editor_reload \/ _moo_edit_load_file \/ _moo_edit_start_file_watch \/ moo_editor_save
        \/ do_save_utf8 \/ (\E id \in MonitorIds : do_stat_one(id)) \/ do_stat_end
        \/ file_modified_on_disk \/ file_deleted \/ GoesOnWithAClosed
        => UNCHANGED <<open, sync_timeout_id>>
    BY Zenon DEF moo_editor_reload, _moo_edit_load_file, _moo_edit_start_file_watch, moo_editor_save,
       do_save_utf8, do_stat_one, do_stat_end, file_modified_on_disk, file_deleted, GoesOnWithAClosed
  <2> QED  BY <1>1, <1>7, <1>8, <1>9, <1>10, <2>1 DEF Program
<1> QED  BY <1>1, <1>4, <1>5, <1>6, <1>11, <1>12, <1>13, Zenon DEF Next

LEMMA OrderlyStep ==
    ASSUME WatchInvariant, CallsInvariant, Next
    PROVE  Orderly(calls', status', ret', QuietDocs')
<1>1. TypeOK /\ Orderly(calls, status, ret, QuietDocs)
  BY DEF WatchInvariant, CallsInvariant
<1>2. ASSUME NEW d \in Docs, NEW later \in BOOLEAN,
             DeletedByOthers(d) \/ WrittenByOthers(d, later) \/ GoesOnWithAClosed
      PROVE  Orderly(calls', status', ret', QuietDocs')
  BY <1>1, <1>2, Unmoving DEF DeletedByOthers, WrittenByOthers, GoesOnWithAClosed
<1>3. ASSUME NEW d \in Docs, Typed(d) PROVE Orderly(calls', status', ret', QuietDocs')
  <2>1. calls' = <<>>
    BY <1>3 DEF Typed, Idle
  <2> QED  BY <2>1, EmptyOrderly
<1>4. ASSUME Commands PROVE Orderly(calls', status', ret', QuietDocs')
  <2>1. UNCHANGED status /\ QuietDocs' = QuietDocs /\ calls = <<>> /\ open \subseteq Docs
    BY <1>1, <1>4, QuietStay DEF Commands, Idle, TypeOK
  <2>2. ASSUME NEW f \in Frame, Enter(f), f.op \in {"open", "save", "reload", "close"},
               f.op = "open" => f.doc \in QuietDocs
        PROVE  Orderly(calls', status', ret', QuietDocs')
    BY <1>1, <2>1, <2>2, Enters
  <2>3. ASSUME NEW d \in Docs \ open, orphans[d] = 0, Enter(Call("open", d))
        PROVE  Orderly(calls', status', ret', QuietDocs')
    <3>1. sync_timeout_id[d] = "none" /\ file_monitor_id[d] = 0
      BY <2>3 DEF CallsInvariant, ClosedHaveNone, WatchInvariant, WatchTable
    <3>2. d \in QuietDocs
      BY <2>3, <3>1 DEF QuietDocs
    <3>3. PICK f \in Frame : f = Call("open", d)
      BY <2>3, NewCalls DEF Entries, OfNoDoc
    <3> QED  BY <2>2, <2>3, <3>2, <3>3 DEF Call
  <2>4. ASSUME NEW d \in open, NEW op \in {"save", "reload"}, Enter(Call(op, d))
        PROVE  Orderly(calls', status', ret', QuietDocs')
    <3>1. PICK f \in Frame : f = Call(op, d)
      BY <2>1, <2>4, NewCalls DEF Entries, OfNoDoc
    <3> QED  BY <2>2, <2>4, <3>1 DEF Call
  <2>5. ASSUME NEW ds \in SUBSET open, Enter([Call("close", NoDoc) EXCEPT !.docs = ds])
        PROVE  Orderly(calls', status', ret', QuietDocs')
    <3>1. PICK f \in Frame : f = [Call("close", NoDoc) EXCEPT !.docs = ds]
      BY <2>1, <2>5, NewBatches
    <3> QED  BY <2>2, <2>5, <3>1 DEF Call
  <2> QED  BY <1>4, <2>3, <2>4, <2>5 DEF Commands
<1>5. ASSUME NEW d \in Docs, NEW src, Dispatched(d, src) PROVE Orderly(calls', status', ret', QuietDocs')
  BY <1>1, <1>5, TimerOrderly
<1>6. Answer => Orderly(calls', status', ret', QuietDocs')
  BY <1>1, LoadingOrderly, SavingOrderly, ClosingOrderly DEF Answer
<1>7. Program => Orderly(calls', status', ret', QuietDocs')
  <2>1. ASSUME GoesOnWithAClosed PROVE Orderly(calls', status', ret', QuietDocs')
    BY <1>1, <2>1, Unmoving DEF GoesOnWithAClosed
  <2> QED
    BY <1>1, <2>1, OpeningOrderly, LoadingOrderly, SavingOrderly, ClosingOrderly, PollingOrderly DEF Program
<1>8. do_stat => Orderly(calls', status', ret', QuietDocs')
  BY PollingOrderly
<1> QED  BY <1>2, <1>3, <1>4, <1>5, <1>6, <1>7, <1>8, Zenon DEF Next

LEMMA CallsInit == Init => CallsInvariant
<1> SUFFICES ASSUME Init PROVE CallsInvariant
  OBVIOUS
<1>1. calls = <<>> /\ open = Docs
  BY DEF Init
<1> QED  BY <1>1, EmptyOrderly DEF CallsInvariant, ClosedHaveNone

LEMMA CallsStep == WatchInvariant /\ CallsInvariant /\ [Next]_vars => CallsInvariant'
<1>1. WatchInvariant /\ CallsInvariant /\ Next => CallsInvariant'
  BY OrderlyStep, NoTimerOfClosed DEF CallsInvariant, WatchInvariant
<1>2. CallsInvariant /\ UNCHANGED vars => CallsInvariant'
  BY DEF CallsInvariant, ClosedHaveNone, QuietDocs, vars
<1> QED  BY <1>1, <1>2

-----------------------------------------------------------------------------
(* Nothing is lost *)

LEMMA AskedAboutLost ==
    ASSUME TypeOK, CallsInvariant, [Next]_vars, NEW d \in open \ open', "MODIFIED" \in status[d]
    PROVE  calls # <<>> /\ d \in Top.asked
<1>1. calls \in Seq(Frame) /\ Orderly(calls, status, ret, QuietDocs) /\ ret \in BOOLEAN
  BY DEF TypeOK, CallsInvariant
<1>2. moo_editor_load_file_end \/ close_docs_real \/ save_changes_dialog \/ close_docs_real_saving
  <2>1. ~UNCHANGED vars /\ Next
    BY DEF vars
  <2>2. ~(open \subseteq open')
    OBVIOUS
  <2>3. Answer => save_changes_dialog
    BY <2>2, Zenon DEF Answer, reload_dialog, try_encoding_dialog, reload_error_dialog, overwrite_dialog,
       encoding_dialog, save_error_dialog
  <2>4. ~UNCHANGED open /\ ~moo_editor_load_file
    BY <2>2 DEF moo_editor_load_file
  <2>5. Program => moo_editor_load_file_end \/ close_docs_real \/ close_docs_real_saving
    BY <2>4, Zenon DEF Program, moo_editor_reload, _moo_edit_load_file, moo_edit_load_text,
       _moo_edit_start_file_watch, moo_editor_save, do_save, do_save_utf8, autosync_callback_end,
       do_stat_one, do_stat_end, file_modified_on_disk, file_deleted, GoesOnWithAClosed
  <2> QED
    BY <2>1, <2>3, <2>4, <2>5, Zenon DEF Next, Typed, DeletedByOthers, WrittenByOthers, Dispatched,
       Commands, do_stat
<1>3. calls # <<>> /\ Top \in Frame /\ Top.op \in {"close", "save_changes_dialog", "closing", "opening"}
  <2>1. \E op \in {"close", "save_changes_dialog", "closing", "opening"} : In(op)
    BY <1>2 DEF close_docs_real, save_changes_dialog, close_docs_real_saving, moo_editor_load_file_end
  <2> QED  BY <2>1, TheCall
<1> DEFINE n == Len(calls)
<1>4. n \in Nat \ {0} /\ n \in 1 .. n /\ Top = calls[n]
  BY <1>1, <1>3, PoppedIs, TopIs
<1>5. ASSUME CloseAll(Top.docs) PROVE d \in Top.docs
  BY <1>5 DEF CloseAll, Closed
<1>6. ASSUME moo_editor_load_file_end PROVE FALSE
  <2>1. Top.op = "opening" /\ ~ret /\ d = Top.doc
    BY <1>6, <1>1, TheCall DEF moo_editor_load_file_end, Closed
  <2>2. n = 1
    <3>1. n > 1 => Follows(calls[n - 1], calls[(n - 1) + 1]) /\ (n - 1) + 1 = n
      BY <1>1, <1>4 DEF Orderly, Stacked
    <3>2. \A f : ~Follows(f, Top)
      BY <2>1 DEF Follows, Loading, Telling, Closing, Saving
    <3>3. n > 1 => Follows(calls[n - 1], Top)
      BY <1>4, <3>1
    <3>4. ~(n > 1)
      BY <3>2, <3>3
    <3>5. \A k \in Nat \ {0} : ~(k > 1) => k = 1
      OBVIOUS
    <3> QED  BY <1>4, <3>4, <3>5
  <2> QED  BY <1>1, <1>3, <1>4, <2>1, <2>2 DEF Orderly, Opens
<1>7. ASSUME close_docs_real PROVE FALSE
  <2>1. find_modified(Top.docs) = {} /\ CloseAll(Top.docs)
    BY <1>7 DEF close_docs_real
  <2>2. d \in Docs /\ d \in Top.docs
    BY <1>5, <2>1 DEF TypeOK
  <2> QED  BY <2>1, <2>2, NeverClean DEF find_modified
<1>8. ASSUME save_changes_dialog PROVE d \in Top.asked
  <2>1. Top.op = "save_changes_dialog" /\ CloseAll(Top.docs)
    BY <1>8, <1>1, TheCall DEF save_changes_dialog
  <2>2. Asks(calls[n]) /\ Spared(calls, n) = Top.asked
    BY <1>4, <2>1 DEF Asks, Spared
  <2>3. d \in Spared(calls, n)
    BY <1>1, <1>4, <1>5, <2>1, <2>2 DEF Orderly, Careful
  <2> QED  BY <2>2, <2>3
<1>9. ASSUME close_docs_real_saving PROVE d \in Top.asked
  <2>1. Top.op = "closing" /\ CloseAll(Top.docs) /\ ret /\ Top.save = {}
    BY <1>9, <1>1, TheCall DEF close_docs_real_saving, SaveFailed
  <2>2. Asks(calls[n]) /\ Spared(calls, n) = Top.asked
    BY <1>4, <2>1 DEF Asks, Spared
  <2>3. d \in Spared(calls, n)
    BY <1>1, <1>4, <1>5, <2>1, <2>2 DEF Orderly, Careful
  <2> QED  BY <2>2, <2>3
<1> QED  BY <1>2, <1>3, <1>6, <1>7, <1>8, <1>9

(***************************************************************************)
(* do_close_doc() of a document with changes: only one that the user chose *)
(* not to save, while the dialogs let timers save it again, the poll close *)
(* it or another, and a save inside a save leave it modified.              *)
(***************************************************************************)
THEOREM NothingIsLostUnasked == Spec => LostOnlyAsAsked
<1>1. WatchInvariant /\ CallsInvariant /\ [Next]_vars =>
         [\A d \in open \ open' : "MODIFIED" \in status[d] => calls # <<>> /\ d \in Top.asked]_vars
  BY AskedAboutLost DEF WatchInvariant
<1> QED
  BY WatchInit, WatchInvariantKept, CallsInit, CallsStep, <1>1, PTL DEF Spec, LostOnlyAsAsked

-----------------------------------------------------------------------------
(* Nothing is missed *)

\* A call that was told of a change of d, and has not got its answer yet.
Told(s, r, d) == \E i \in 1 .. Len(s) :
    s[i].op \in Telling /\ s[i].doc = d /\ (i = Len(s) => ~r)

Reading(s, d) == \E i \in 1 .. Len(s) : s[i].op = "start_watch" /\ s[i].doc = d

Listening(d) == Told(calls, ret, d) \/ Reading(calls, d)

\* The next look at the file shows the change, if there is one that can be seen.
Plain(d) ==
    broken = "no" /\ file_monitor_id[d] # 0 /\ disk[d] # known[d] /\ ~hidden[d] =>
        disk[d] = 0 \/ requests[file_monitor_id[d]].newer

\* WatchedChangeIsDue, but a call that has got "done" for an answer does not count.
Noticed == \A d \in open : Plain(d) \/ Listening(d)

LEMMA PushedListens ==
    ASSUME calls \in Seq(Frame), NEW f \in Frame, calls' = Append(calls, f), NEW d, Listening(d)
    PROVE  Listening(d)'
<1>1. PICK t \in Seq(Frame) : t = calls' /\ Len(t) = Len(calls) + 1 /\ Len(calls) \in Nat
                              /\ \A i \in 1 .. Len(calls) : t[i] = calls[i]
  BY PushedIs
<1>2. \A i \in 1 .. Len(calls) : i \in 1 .. Len(t) /\ i # Len(t)
  BY <1>1
<1>3. Told(calls, ret, d) => Told(t, ret', d)
  BY <1>1, <1>2 DEF Told
<1>4. Reading(calls, d) => Reading(t, d)
  BY <1>1, <1>2 DEF Reading
<1> QED  BY <1>1, <1>3, <1>4 DEF Listening

LEMMA PushedTwoListens ==
    ASSUME calls \in Seq(Frame), NEW f \in Frame, NEW g \in Frame,
           calls' = Append(Append(calls, f), g), NEW d
    PROVE  /\ Listening(d) => Listening(d)'
           /\ f.op \in Telling /\ f.doc = d => Listening(d)'
<1>1. PICK u \in Seq(Frame) : u = Append(calls, f)
  BY PushedIs
<1>2. PICK t \in Seq(Frame) : t = Append(u, g)
  BY PushedIs
<1>3. /\ Len(u) = Len(calls) + 1 /\ Len(calls) \in Nat /\ u[Len(calls) + 1] = f
      /\ \A i \in 1 .. Len(calls) : u[i] = calls[i]
  BY <1>1, PushedIs
<1>4. Len(t) = Len(u) + 1 /\ \A i \in 1 .. Len(u) : t[i] = u[i]
  BY <1>2, PushedIs
<1>5. \A i \in 1 .. Len(calls) + 1 : i \in 1 .. Len(u) /\ i \in 1 .. Len(t) /\ i # Len(t)
  BY <1>3, <1>4
<1>6. t = calls' /\ Len(calls) + 1 \in 1 .. Len(calls) + 1
      /\ \A i \in 1 .. Len(calls) : i \in 1 .. Len(calls) + 1
  BY <1>1, <1>2, <1>3
<1>7. Told(calls, ret, d) => Told(t, ret', d)
  BY <1>3, <1>4, <1>5, <1>6 DEF Told
<1>8. Reading(calls, d) => Reading(t, d)
  BY <1>3, <1>4, <1>5, <1>6 DEF Reading
<1>9. f.op \in Telling /\ f.doc = d => Told(t, ret', d)
  BY <1>3, <1>4, <1>5, <1>6 DEF Told
<1> QED  BY <1>6, <1>7, <1>8, <1>9 DEF Listening

LEMMA SwappedListens ==
    ASSUME calls \in Seq(Frame), calls # <<>>, NEW g \in Frame, calls' = Append(Below, g),
           Top.op \notin Telling \cup {"start_watch"}, NEW d
    PROVE  /\ Listening(d) => Listening(d)'
           /\ g.op = "start_watch" /\ g.doc = d => Listening(d)'
<1>1. PICK t \in Seq(Frame) : t = Append(Popped(calls), g)
  BY SwappedIs
<1>2. /\ t = calls' /\ Len(t) = Len(calls) /\ Len(calls) \in Nat \ {0} /\ t[Len(calls)] = g
      /\ \A i \in 1 .. Len(calls) - 1 : t[i] = calls[i]
  BY <1>1, SwappedIs, TopIs
<1>3. \A i \in 1 .. Len(calls) : i = Len(calls) \/ i \in 1 .. Len(calls) - 1
  BY <1>2
<1>4. calls[Len(calls)].op \notin Telling \cup {"start_watch"}
  BY TopIs
<1>5. Told(calls, ret, d) => Told(t, ret', d)
  BY <1>2, <1>3, <1>4 DEF Told
<1>6. Reading(calls, d) => Reading(t, d)
  BY <1>2, <1>3, <1>4 DEF Reading
<1>7. g.op = "start_watch" /\ g.doc = d => Reading(t, d)
  <2>1. Len(calls) \in 1 .. Len(t)
    BY <1>2
  <2> QED  BY <1>2, <2>1 DEF Reading
<1> QED  BY <1>2, <1>5, <1>6, <1>7 DEF Listening

\* What is told to the one below, that all is well, is not so for d only by a load or
\* a close of d.
LEMMA PoppedListens ==
    ASSUME calls \in Seq(Frame), calls # <<>>, Stacked(calls), NEW d, NEW r \in BOOLEAN, Return(r),
           Top.op \in Telling => Top.doc # d \/ ret,
           Top.op = "start_watch" => Top.doc # d,
           r => /\ ~(Top.op \in Loading \cup {"reload", "reload_dialog"} /\ Top.doc = d)
                /\ ~(Top.op \in Closing /\ Top.docs = {d}),
           Listening(d)
    PROVE  Listening(d)'
<1> DEFINE n == Len(calls)
<1>1. PICK t \in Seq(Frame) : t = Popped(calls)
  BY PoppedIs
<1>2. /\ t = calls' /\ n \in Nat \ {0} /\ Len(t) = n - 1
      /\ \A i \in 1 .. n - 1 : t[i] = calls[i]
  BY <1>1, PoppedIs, TopIs DEF Return
<1>3. Top = calls[n] /\ t = Below
  BY <1>1, TopIs
<1>4. ret' = (r \/ t = <<>> \/ t[Len(t)].op \in Dialogs)
  BY <1>3 DEF Return
<1>5. n > 1 => Follows(calls[n - 1], calls[n])
  <2>1. n > 1 => n - 1 \in 1 .. n - 1 /\ (n - 1) + 1 = n
    BY <1>2
  <2> QED  BY <2>1 DEF Stacked
<1> HIDE DEF n
<1>6. Told(calls, ret, d) => Told(t, ret', d)
  <2> SUFFICES ASSUME NEW i \in 1 .. n, calls[i].op \in Telling, calls[i].doc = d, i = n => ~ret
               PROVE  Told(t, ret', d)
    BY DEF Told, n
  <2>1. i # n
    BY <1>3
  <2>2. i \in 1 .. n - 1 /\ t[i] = calls[i]
    BY <1>2, <2>1
  <2>3. CASE i # n - 1
    BY <1>2, <2>2, <2>3 DEF Told
  <2>4. CASE i = n - 1
    <3>1. Follows(calls[n - 1], Top) /\ t # <<>> /\ t[Len(t)] = calls[n - 1]
      BY <1>2, <1>3, <1>5, <2>2, <2>4
    <3>2. \/ Top.op \in Loading \cup {"reload", "reload_dialog"} /\ Top.doc = d
          \/ Top.op \in Closing /\ Top.docs = {d}
      BY <2>4, <3>1 DEF Follows, Telling, Dialogs
    <3>3. ~r /\ t[Len(t)].op \notin Dialogs
      BY <2>4, <3>1, <3>2 DEF Telling, Dialogs
    <3>4. ~ret'
      BY <1>4, <3>1, <3>3
    <3> QED  BY <1>2, <2>2, <3>4 DEF Told
  <2> QED  BY <2>3, <2>4
<1>7. Reading(calls, d) => Reading(t, d)
  <2> SUFFICES ASSUME NEW i \in 1 .. n, calls[i].op = "start_watch", calls[i].doc = d
               PROVE  Reading(t, d)
    BY DEF Reading, n
  <2>1. i # n
    BY <1>3
  <2>2. i \in 1 .. n - 1 /\ t[i] = calls[i]
    BY <1>2, <2>1
  <2> QED  BY <1>2, <2>2 DEF Reading
<1> QED  BY <1>2, <1>6, <1>7 DEF Listening

\* The watch of d stays as it is, or goes.
StillWatched(d) ==
    \/ file_monitor_id'[d] = 0
    \/ /\ file_monitor_id'[d] = file_monitor_id[d]
       /\ requests'[file_monitor_id[d]].newer = requests[file_monitor_id[d]].newer

LEMMA PlainStays ==
    ASSUME NEW d, Plain(d), StillWatched(d), broken' = "no" => broken = "no",
           disk'[d] = disk[d], known'[d] = known[d], hidden'[d] = hidden[d]
    PROVE  Plain(d)'
BY DEF Plain, StillWatched

LEMMA OwnMonitor ==
    ASSUME WatchInvariant, NEW d \in Docs, file_monitor_id[d] # 0
    PROVE  /\ file_monitor_id[d] \in DOMAIN requests /\ requests[file_monitor_id[d]].doc = d
           /\ file_monitor_id[d] \notin round.gone
           /\ \A e \in Docs : e # d => file_monitor_id[e] # file_monitor_id[d]
BY DEF WatchInvariant, WatchTable, GoneAreNobodys

LEMMA StoppingKeepsOthers ==
    ASSUME WatchInvariant, NEW d \in Docs,
           \/ UNCHANGED <<file_monitor_id, requests>>
           \/ \E e \in Docs : StopWatch(e)
           \/ \E ds \in SUBSET Docs : Closed(ds)
           \/ \E e \in Docs : \E flag : Marked(e, flag, requests, file_monitor_id)
           \/ /\ requests' = [i \in DOMAIN requests \ round.gone |-> requests[i]]
              /\ UNCHANGED file_monitor_id
    PROVE  StillWatched(d)
<1>1. file_monitor_id \in [Docs -> MonitorIds \cup {0}]
  BY DEF WatchInvariant, TypeOK
<1>2. CASE file_monitor_id[d] = 0
  <2>1. file_monitor_id'[d] = 0
    BY <1>1, <1>2, Zenon DEF StopWatch, Closed, Marked
  <2> QED  BY <2>1 DEF StillWatched
<1>3. CASE file_monitor_id[d] # 0
  <2>1. /\ file_monitor_id[d] \in DOMAIN requests /\ file_monitor_id[d] \notin round.gone
        /\ \A e \in Docs : e # d => file_monitor_id[e] # file_monitor_id[d]
    BY <1>3, OwnMonitor
  <2>2. CASE UNCHANGED <<file_monitor_id, requests>>
    BY <2>2 DEF StillWatched
  <2>3. ASSUME NEW e \in Docs, file_monitor_id' = [file_monitor_id EXCEPT ![e] = 0],
               requests' = [i \in DOMAIN requests \ {file_monitor_id[e]} |-> requests[i]]
        PROVE  StillWatched(d)
    BY <1>1, <2>1, <2>3 DEF StillWatched
  <2>4. ASSUME NEW ds \in SUBSET Docs, Closed(ds) PROVE StillWatched(d)
    BY <1>1, <2>1, <2>4 DEF Closed, StillWatched
  <2>5. ASSUME requests' = [i \in DOMAIN requests \ round.gone |-> requests[i]],
               UNCHANGED file_monitor_id
        PROVE  StillWatched(d)
    BY <2>1, <2>5 DEF StillWatched
  <2> QED  BY <2>2, <2>3, <2>4, <2>5 DEF StopWatch, Without, Marked
<1> QED  BY <1>2, <1>3

LEMMA NoticedStill ==
    ASSUME WatchInvariant, Noticed, NEW d \in open, UNCHANGED files, StillWatched(d),
           broken' = "no" => broken = "no", Listening(d) => Listening(d)'
    PROVE  Plain(d)' \/ Listening(d)'
BY PlainStays DEF Noticed

LEMMA StaysListens ==
    ASSUME NEW d, Listening(d), UNCHANGED <<calls, ret>>
    PROVE  Listening(d)'
BY DEF Listening

\* Others, and the user.
LEMMA OutsideNoticed ==
    ASSUME WatchInvariant, Noticed,
           (\E d \in Docs : Typed(d) \/ DeletedByOthers(d))
           \/ (\E d \in Docs, later \in BOOLEAN : WrittenByOthers(d, later))
    PROVE  Noticed'
<1> SUFFICES ASSUME NEW d \in open' PROVE Plain(d)' \/ Listening(d)'
  BY DEF Noticed
<1>1. UNCHANGED <<open, calls, ret, broken, known, file_monitor_id>> /\ open \subseteq Docs
      /\ disk \in [Docs -> Texts \cup {0}] /\ hidden \in [Docs -> BOOLEAN]
  BY DEF Typed, DeletedByOthers, WrittenByOthers, WatchInvariant, TypeOK
<1>2. d \in open /\ d \in Docs /\ (Plain(d) \/ Listening(d)) /\ (Listening(d) => Listening(d)')
  BY <1>1, StaysListens DEF Noticed
<1>3. ASSUME NEW e \in Docs, Typed(e) PROVE Plain(d) => Plain(d)'
  BY <1>3 DEF Typed, Plain
<1>4. ASSUME NEW e \in Docs, DeletedByOthers(e) PROVE Plain(d) => Plain(d)'
  BY <1>1, <1>2, <1>4 DEF DeletedByOthers, Plain
<1>5. ASSUME NEW e \in Docs, NEW later \in BOOLEAN, WrittenByOthers(e, later),
             file_monitor_id[d] # 0
      PROVE  Plain(d) => Plain(d)'
  <2>1. file_monitor_id[d] \in DOMAIN requests /\ requests[file_monitor_id[d]].doc = d
        /\ requests[file_monitor_id[d]] \in Monitor
    BY <1>2, <1>5, OwnMonitor DEF WatchInvariant, TypeOK
  <2>2. /\ requests' = [i \in DOMAIN requests |->
                         IF requests[i].doc = e /\ later
                         THEN [requests[i] EXCEPT !.newer = TRUE] ELSE requests[i]]
        /\ hidden' = [hidden EXCEPT ![e] = @ \/ ~later]
        /\ \E t : disk' = [disk EXCEPT ![e] = t]
    BY <1>5 DEF WrittenByOthers
  <2>3. CASE d # e
    <3>1. requests'[file_monitor_id[d]] = requests[file_monitor_id[d]]
      BY <2>1, <2>2, <2>3
    <3>2. hidden'[d] = hidden[d] /\ disk'[d] = disk[d]
      BY <1>1, <1>2, <2>2, <2>3
    <3> QED  BY <1>1, <3>1, <3>2 DEF Plain
  <2>4. CASE d = e /\ later
    <3>1. requests'[file_monitor_id[d]].newer
      BY <2>1, <2>2, <2>4 DEF Monitor
    <3> QED  BY <1>1, <3>1 DEF Plain
  <2>5. CASE d = e /\ ~later
    <3>1. hidden'[d]
      BY <1>1, <1>2, <2>2, <2>5
    <3> QED  BY <3>1 DEF Plain
  <2> QED  BY <2>3, <2>4, <2>5
<1>6. file_monitor_id[d] = 0 => Plain(d)'
  BY <1>1 DEF Plain
<1> QED  BY <1>2, <1>3, <1>4, <1>5, <1>6

\* Steps that call, go on or return, and at most stop watches.
LEMMA GoingOnNoticed ==
    ASSUME WatchInvariant, CallsInvariant, Noticed,
           Commands \/ do_stat \/ (\E d \in Docs, src \in {"named", "lost"} : Dispatched(d, src))
           \/ moo_editor_reload \/ reload_dialog \/ _moo_edit_load_file \/ try_encoding_dialog
           \/ reload_error_dialog \/ moo_editor_save \/ overwrite_dialog \/ encoding_dialog
           \/ save_error_dialog \/ autosync_callback_end \/ do_stat_end \/ GoesOnWithAClosed
    PROVE  Noticed'
<1> SUFFICES ASSUME NEW d \in open' PROVE Plain(d)' \/ Listening(d)'
  BY DEF Noticed
<1>1. /\ calls \in Seq(Frame) /\ Stacked(calls) /\ TypeOK /\ open \subseteq Docs /\ ret \in BOOLEAN
  BY DEF WatchInvariant, TypeOK, CallsInvariant, Orderly
<1>2. UNCHANGED <<files, open>> /\ (broken' = "no" => broken = "no")
  BY Zenon DEF Commands, do_stat, Dispatched, moo_editor_reload, reload_dialog, _moo_edit_load_file,
     try_encoding_dialog, reload_error_dialog, moo_editor_save, overwrite_dialog, encoding_dialog,
     save_error_dialog, autosync_callback_end, do_stat_end, GoesOnWithAClosed, Idle, MainLoop, In
<1>3. d \in open /\ d \in Docs
  BY <1>1, <1>2
<1>4. StillWatched(d)
  <2>1. \/ UNCHANGED <<file_monitor_id, requests>>
        \/ Top.doc \in Docs /\ StopWatch(Top.doc)
        \/ /\ requests' = [i \in DOMAIN requests \ round.gone |-> requests[i]]
           /\ UNCHANGED file_monitor_id
    <3>1. CASE _moo_edit_load_file \/ try_encoding_dialog
      <4>1. In("read") \/ In("try_encoding_dialog")
        BY <3>1 DEF _moo_edit_load_file, try_encoding_dialog
      <4>2. Top.doc \in Docs
        BY <1>1, <4>1, TheCall DEF OfNoDoc
      <4>3. UNCHANGED watch \/ StopWatch(Top.doc)
        BY <3>1, Zenon DEF _moo_edit_load_file, try_encoding_dialog
      <4> QED  BY <4>2, <4>3 DEF watch
    <3>2. CASE do_stat_end
      BY <3>2 DEF do_stat_end
    <3>3. CASE do_stat
      BY <3>3 DEF do_stat
    <3>4. CASE UNCHANGED watch
      BY <3>4 DEF watch
    <3>5. Commands \/ (\E e \in Docs, src \in {"named", "lost"} : Dispatched(e, src))
          \/ moo_editor_reload \/ reload_dialog \/ reload_error_dialog \/ moo_editor_save
          \/ overwrite_dialog \/ encoding_dialog \/ save_error_dialog \/ autosync_callback_end
          \/ GoesOnWithAClosed => UNCHANGED watch
      BY Zenon DEF Commands, Dispatched, moo_editor_reload, reload_dialog, reload_error_dialog,
         moo_editor_save, overwrite_dialog, encoding_dialog, save_error_dialog,
         autosync_callback_end, GoesOnWithAClosed
    <3> QED  BY <3>1, <3>2, <3>3, <3>4, <3>5
  <2> QED  BY <1>3, <2>1, StoppingKeepsOthers
<1> SUFFICES Listening(d) => Listening(d)'
  BY <1>2, <1>3, <1>4, NoticedStill
<1> SUFFICES ASSUME Listening(d) PROVE Listening(d)'
  OBVIOUS
<1>5. UNCHANGED <<calls, ret>> => Listening(d)'
  BY StaysListens
<1>6. ASSUME NEW f \in Frame, Enter(f) PROVE Listening(d)'
  BY <1>1, <1>6, PushedListens DEF Enter
<1>7. ASSUME NEW g, g \in Frame, Become(g), NEW op, In(op), op \notin Telling \cup {"start_watch"}
      PROVE  Listening(d)'
  <2>1. calls # <<>> /\ Top.op = op
    BY <1>1, <1>7, TheCall
  <2> QED  BY <1>1, <1>7, <2>1, SwappedListens DEF Become
<1>8. ASSUME NEW op, In(op), op \notin Telling \cup {"start_watch"},
             NEW next \in Entries \cup Dialogs, op \notin OfNoDoc, next \notin OfNoDoc, Becomes(next)
      PROVE  Listening(d)'
  <2>1. calls # <<>> /\ Top \in Frame /\ Top.op = op
    BY <1>1, <1>8, TheCall
  <2>2. [Top EXCEPT !.op = next] \in Frame
    BY <1>8, <2>1, GoesOnAs
  <2> QED  BY <1>7, <1>8, <2>2 DEF Becomes
<1>9. ASSUME NEW op, In(op), op \notin Telling \cup {"start_watch"}, NEW r \in BOOLEAN, Return(r),
             r => op \notin Loading \cup {"reload", "reload_dialog"} \cup Closing
      PROVE  Listening(d)'
  <2>1. calls # <<>> /\ Top.op = op
    BY <1>1, <1>9, TheCall
  <2> QED  BY <1>1, <1>9, <2>1, PoppedListens
<1>10. ASSUME Commands PROVE Listening(d)'
  <2>1. \/ \E e \in Docs, op \in {"open", "save", "reload"} : Enter(Call(op, e))
        \/ \E ds \in SUBSET Docs : Enter([Call("close", NoDoc) EXCEPT !.docs = ds])
    BY <1>1, <1>10 DEF Commands
  <2>2. \A e \in Docs, op \in {"open", "save", "reload"} : Call(op, e) \in Frame
    BY NewCalls DEF Entries, OfNoDoc
  <2> QED  BY <1>6, <2>1, <2>2, NewBatches
<1>11. ASSUME do_stat PROVE Listening(d)'
  <2>1. Enter(Call("do_stat", NoDoc)) /\ Call("do_stat", NoDoc) \in Frame
    BY <1>11, NewBatches DEF do_stat
  <2> QED  BY <1>6, <2>1
<1>12. ASSUME NEW e \in Docs, NEW src, Dispatched(e, src) PROVE Listening(d)'
  <2>1. PICK f \in Frame : f = Call("autosync", e)
    BY NewCalls DEF Entries, OfNoDoc
  <2>2. PICK g \in Frame : g = Call("save", e)
    BY NewCalls DEF Entries, OfNoDoc
  <2>3. /\ calls \o <<f>> = Append(calls, f)
        /\ Append(calls, f) \o <<>> = Append(calls, f)
        /\ Append(calls, f) \o <<g>> = Append(Append(calls, f), g)
    <3>1. Append(calls, f) \in Seq(Frame)
      BY <1>1
    <3>2. \A s \in Seq(Frame), h \in Frame : s \o <<h>> = Append(s, h) /\ s \o <<>> = s
      OBVIOUS
    <3> QED  BY <1>1, <3>1, <3>2
  <2>4. \/ UNCHANGED <<calls, ret>>
        \/ UNCHANGED ret /\ calls' = calls \o <<f>> \o <<g>>
        \/ UNCHANGED ret /\ calls' = calls \o <<f>> \o <<>>
    BY <1>12, <2>1, <2>2 DEF Dispatched
  <2>5. CASE calls' = Append(Append(calls, f), g)
    BY <1>1, <2>5, PushedTwoListens
  <2>6. CASE calls' = Append(calls, f)
    BY <1>1, <2>6, PushedListens
  <2> QED  BY <1>5, <2>3, <2>4, <2>5, <2>6
<1>13. ASSUME moo_editor_reload \/ moo_editor_save PROVE Listening(d)'
  <2>1. \/ In("reload") /\ \E next \in {"reload_dialog", "read"} : Becomes(next)
        \/ In("save") /\ \E next \in {"overwrite_dialog", "do_save"} : Becomes(next)
    BY <1>13, Zenon DEF moo_editor_reload, moo_editor_save
  <2> QED  BY <1>8, <2>1 DEF Telling, Entries, Dialogs, OfNoDoc
<1>14. ASSUME reload_dialog \/ try_encoding_dialog \/ encoding_dialog PROVE Listening(d)'
  <2>1. \/ In("reload_dialog") /\ (Becomes("read") \/ Return(FALSE))
        \/ In("try_encoding_dialog") /\ (Becomes("load_text") \/ Return(FALSE))
        \/ In("encoding_dialog") /\ (Becomes("do_save_utf8") \/ Return(FALSE))
    BY <1>14, Zenon DEF reload_dialog, try_encoding_dialog, encoding_dialog
  <2>2. ASSUME NEW op \in {"reload_dialog", "try_encoding_dialog", "encoding_dialog"}, In(op),
               NEW next \in {"read", "load_text", "do_save_utf8"}, Becomes(next)
        PROVE  Listening(d)'
    BY <1>8, <2>2 DEF Telling, Entries, Dialogs, OfNoDoc
  <2>3. ASSUME NEW op \in {"reload_dialog", "try_encoding_dialog", "encoding_dialog"}, In(op), Return(FALSE)
        PROVE  Listening(d)'
    BY <1>9, <2>3 DEF Telling
  <2> QED  BY <2>1, <2>2, <2>3
<1>15. ASSUME reload_error_dialog \/ save_error_dialog \/ autosync_callback_end \/ do_stat_end
       PROVE  Listening(d)'
  <2>1. \/ (In("reload_error_dialog") \/ In("save_error_dialog")) /\ Return(FALSE)
        \/ (In("autosync") \/ In("do_stat")) /\ Return(ret)
    BY <1>15, Zenon DEF reload_error_dialog, save_error_dialog, autosync_callback_end, do_stat_end
  <2>2. CASE (In("reload_error_dialog") \/ In("save_error_dialog")) /\ Return(FALSE)
    BY <1>9, <2>2 DEF Telling
  <2>3. CASE (In("autosync") \/ In("do_stat")) /\ Return(ret)
    BY <1>1, <1>9, <2>3 DEF Telling, Loading, Closing
  <2> QED  BY <2>1, <2>2, <2>3
<1>16. ASSUME _moo_edit_load_file PROVE Listening(d)'
  <2>1. In("read") /\ calls # <<>> /\ Top \in Frame /\ Top.op = "read" /\ Top.doc \in Docs
    BY <1>1, <1>16, TheCall DEF _moo_edit_load_file, OfNoDoc
  <2>2. disk[Top.doc] \in Texts \cup {0}
    BY <1>1, <2>1 DEF TypeOK
  <2>3. \A op \in {"load_text", "try_encoding_dialog"} :
            [Top EXCEPT !.op = op, !.text = disk[Top.doc]] \in Frame
    BY <2>1, <2>2, GoesOnAs DEF Entries, Dialogs, OfNoDoc
  <2>4. CASE Becomes("reload_error_dialog")
    BY <1>8, <2>1, <2>4 DEF Telling, Dialogs, OfNoDoc
  <2>5. CASE \E op \in {"load_text", "try_encoding_dialog"} :
               Become([Top EXCEPT !.op = op, !.text = disk[Top.doc]])
    BY <1>7, <2>1, <2>3, <2>5 DEF Telling
  <2> QED  BY <1>16, <2>4, <2>5 DEF _moo_edit_load_file
<1>17. ASSUME overwrite_dialog PROVE Listening(d)'
  <2>1. In("overwrite_dialog") /\ Top \in Frame /\ Top.op = "overwrite_dialog" /\ Top.doc \in Docs
    BY <1>1, <1>17, TheCall DEF overwrite_dialog, OfNoDoc
  <2>2. [Top EXCEPT !.op = "do_save", !.asked = {Top.doc}] \in Frame
    BY <2>1, GoesOnAs DEF Entries, OfNoDoc
  <2>3. CASE Become([Top EXCEPT !.op = "do_save", !.asked = {Top.doc}])
    BY <1>7, <2>1, <2>2, <2>3 DEF Telling
  <2>4. CASE Return(FALSE)
    BY <1>9, <2>1, <2>4 DEF Telling
  <2> QED  BY <1>17, <2>3, <2>4 DEF overwrite_dialog
<1>18. ASSUME GoesOnWithAClosed PROVE Listening(d)'
  BY <1>5, <1>18 DEF GoesOnWithAClosed
<1> QED  BY <1>10, <1>11, <1>12, <1>13, <1>14, <1>15, <1>16, <1>17, <1>18

\* A document that is opened has no watch yet.
LEMMA OpeningNoticed ==
    ASSUME WatchInvariant, CallsInvariant, Noticed, moo_editor_load_file
    PROVE  Noticed'
<1> SUFFICES ASSUME NEW d \in open' PROVE Plain(d)' \/ Listening(d)'
  BY DEF Noticed
<1>1. /\ calls \in Seq(Frame) /\ Stacked(calls) /\ TypeOK /\ open \subseteq Docs
      /\ Begins(calls, QuietDocs) /\ known \in [Docs -> Texts \cup {0}]
  BY DEF WatchInvariant, TypeOK, CallsInvariant, Orderly
<1>2. In("open") /\ calls # <<>> /\ Top.op = "open" /\ Top.doc \in Docs
  BY <1>1, TheCall DEF moo_editor_load_file, OfNoDoc
<1>3. /\ open' = open \cup {Top.doc} /\ known' = [known EXCEPT ![Top.doc] = 0]
      /\ UNCHANGED <<disk, hidden, file_monitor_id, requests, broken>>
  BY DEF moo_editor_load_file, watch
<1>4. CASE d = Top.doc
  <2>1. file_monitor_id[d] = 0
    BY <1>1, <1>2, <1>4, TopIs DEF Begins, QuietDocs
  <2> QED  BY <1>3, <2>1 DEF Plain
<1>5. CASE d # Top.doc
  <2>1. PICK n : n = Len(calls)
    OBVIOUS
  <2>2. n \in Nat \ {0}
    BY <1>1, <1>2, <2>1, PoppedIs
  <2>3. n = 1
    <3>1. ~(n > 1)
      <4>1. n > 1 => n - 1 \in 1 .. n - 1 /\ (n - 1) + 1 = n
        BY <2>2
      <4>2. n > 1 => Follows(calls[n - 1], Top)
        BY <1>1, <2>1, <4>1, TopIs DEF Stacked
      <4> QED
        BY <1>2, <4>2 DEF Follows, Loading, Telling, Closing, Saving
    <3> QED  BY <2>2, <3>1
  <2>4. \A i \in 1 .. Len(calls) : calls[i].op = "open"
    <3>1. \A i \in 1 .. Len(calls) : i = Len(calls)
      BY <2>1, <2>3
    <3> QED  BY <1>2, <3>1, TopIs, Zenon
  <2>5. ~Listening(d)
    BY <2>4 DEF Listening, Told, Reading, Telling
  <2>6. Plain(d) /\ StillWatched(d) /\ known'[d] = known[d]
    BY <1>1, <1>3, <1>5, <2>5 DEF Noticed, StillWatched
  <2> QED  BY <1>3, <2>6, PlainStays
<1> QED  BY <1>4, <1>5

\* What was read has its watch next.
LEMMA LoadingNoticed ==
    ASSUME WatchInvariant, CallsInvariant, Noticed, moo_edit_load_text
    PROVE  Noticed'
<1> SUFFICES ASSUME NEW d \in open' PROVE Plain(d)' \/ Listening(d)'
  BY DEF Noticed
<1>1. calls \in Seq(Frame) /\ TypeOK /\ open \subseteq Docs /\ known \in [Docs -> Texts \cup {0}]
  BY DEF WatchInvariant, TypeOK
<1>2. In("load_text") /\ calls # <<>> /\ Top \in Frame /\ Top.op = "load_text" /\ Top.doc \in Docs
  BY <1>1, TheCall DEF moo_edit_load_text, OfNoDoc
<1>3. /\ UNCHANGED <<disk, hidden, file_monitor_id, requests, open, broken>>
      /\ \E t : known' = [known EXCEPT ![Top.doc] = t]
      /\ Becomes("start_watch")
  BY DEF moo_edit_load_text, watch
<1>4. PICK g : g = [Top EXCEPT !.op = "start_watch"]
  OBVIOUS
<1>5. g \in Frame /\ g.op = "start_watch" /\ g.doc = Top.doc
  BY <1>2, <1>4, GoesOnAs DEF Entries, OfNoDoc, Frame
<1>6. calls' = Append(Below, g)
  BY <1>3, <1>4 DEF Becomes, Become
<1>7. /\ Listening(d) => Listening(d)'
      /\ Top.doc = d => Listening(d)'
  BY <1>1, <1>2, <1>5, <1>6, SwappedListens DEF Telling
<1>8. CASE d # Top.doc
  <2>1. StillWatched(d) /\ known'[d] = known[d]
    BY <1>1, <1>3, <1>8 DEF StillWatched
  <2>2. Plain(d) => Plain(d)'
    BY <1>3, <2>1, PlainStays
  <2> QED  BY <1>3, <1>7, <2>2 DEF Noticed
<1> QED  BY <1>7, <1>8

\* A new monitor has all that comes after it to report, and nothing from before.
LEMMA WatchingNoticed ==
    ASSUME WatchInvariant, CallsInvariant, Noticed, _moo_edit_start_file_watch
    PROVE  Noticed'
<1> SUFFICES ASSUME NEW d \in open' PROVE Plain(d)' \/ Listening(d)'
  BY DEF Noticed
<1> DEFINE e == Top.doc
<1>1. /\ calls \in Seq(Frame) /\ Stacked(calls) /\ TypeOK /\ open \subseteq Docs
      /\ hidden \in [Docs -> BOOLEAN] /\ file_monitor_id \in [Docs -> MonitorIds \cup {0}]
  BY DEF WatchInvariant, TypeOK, CallsInvariant, Orderly
<1>2. In("start_watch") /\ calls # <<>> /\ Top.op = "start_watch" /\ e \in Docs
  BY <1>1, TheCall DEF _moo_edit_start_file_watch, OfNoDoc
<1>3. UNCHANGED <<disk, known, open, broken>> /\ Return(TRUE) /\ d \in open /\ d \in Docs
  BY <1>1 DEF _moo_edit_start_file_watch
<1>4. \/ /\ MonitorIds \ Held # {}
         /\ file_monitor_id' = [file_monitor_id EXCEPT ![e] = FreshId]
         /\ requests' = [i \in DOMAIN Without(file_monitor_id[e]) \cup {FreshId} |->
                            IF i = FreshId THEN [doc |-> e, newer |-> FALSE, alive |-> TRUE]
                            ELSE Without(file_monitor_id[e])[i]]
         /\ hidden' = [hidden EXCEPT ![e] = disk[e] # known[e]]
      \/ StopWatch(e) /\ UNCHANGED hidden
  BY DEF _moo_edit_start_file_watch
<1> HIDE DEF e
<1>5. CASE d = e
  <2>1. file_monitor_id'[d] = 0 \/ hidden'[d] = (disk[d] # known[d])
    BY <1>1, <1>2, <1>4, <1>5 DEF StopWatch
  <2> QED  BY <1>3, <2>1 DEF Plain
<1>6. CASE d # e
  <2>1. hidden'[d] = hidden[d] /\ file_monitor_id'[d] = file_monitor_id[d]
    BY <1>1, <1>2, <1>3, <1>4, <1>6 DEF StopWatch
  <2>2. StillWatched(d)
    <3>1. CASE file_monitor_id[d] = 0
      BY <2>1, <3>1 DEF StillWatched
    <3>2. CASE file_monitor_id[d] # 0 /\ StopWatch(e)
      BY <1>2, <1>3, <3>2, StoppingKeepsOthers
    <3>3. CASE /\ file_monitor_id[d] # 0
               /\ MonitorIds \ Held # {}
               /\ requests' = [i \in DOMAIN Without(file_monitor_id[e]) \cup {FreshId} |->
                                  IF i = FreshId THEN [doc |-> e, newer |-> FALSE, alive |-> TRUE]
                                  ELSE Without(file_monitor_id[e])[i]]
      <4>1. FreshId \notin Held
        BY <1>3, <3>3, Fresh
      <4>2. file_monitor_id[d] # FreshId
        BY <1>3, <4>1 DEF Held
      <4>3. /\ file_monitor_id[d] \in DOMAIN requests
            /\ file_monitor_id[d] # file_monitor_id[e]
        BY <1>2, <1>3, <1>6, <3>3, OwnMonitor
      <4>4. requests'[file_monitor_id[d]] = requests[file_monitor_id[d]]
        BY <3>3, <4>2, <4>3 DEF Without
      <4> QED  BY <2>1, <4>4 DEF StillWatched
    <3> QED  BY <1>4, <3>1, <3>2, <3>3
  <2>3. Plain(d) => Plain(d)'
    BY <1>3, <2>1, <2>2, PlainStays
  <2>4. Listening(d) => Listening(d)'
    BY <1>1, <1>2, <1>3, <1>6, PoppedListens DEF e, Telling, Closing
  <2> QED  BY <1>3, <2>3, <2>4 DEF Noticed
<1> QED  BY <1>5, <1>6

\* What was written is what is known of the file; a save that fails leaves both.
LEMMA SavingNoticed ==
    ASSUME WatchInvariant, CallsInvariant, Noticed, do_save \/ do_save_utf8
    PROVE  Noticed'
<1> SUFFICES ASSUME NEW d \in open' PROVE Plain(d)' \/ Listening(d)'
  BY DEF Noticed
<1> DEFINE e == Top.doc
<1>1. /\ calls \in Seq(Frame) /\ TypeOK /\ open \subseteq Docs
      /\ disk \in [Docs -> Texts \cup {0}] /\ known \in [Docs -> Texts \cup {0}]
  BY DEF WatchInvariant, TypeOK
<1>2. In("do_save") \/ In("do_save_utf8")
  BY DEF do_save, do_save_utf8
<1>3. calls # <<>> /\ Top \in Frame /\ Top.op \in {"do_save", "do_save_utf8"} /\ e \in Docs
  BY <1>1, <1>2, TheCall DEF OfNoDoc
<1>4. UNCHANGED <<open, file_monitor_id, requests>> /\ broken = "no"
  BY <1>2, Zenon DEF do_save, do_save_utf8, watch, In
<1>5. \/ \E t : Saved(e, t)
      \/ NotSaved
      \/ NotConverted
  BY Zenon DEF do_save, do_save_utf8
<1> HIDE DEF e
<1>6. d \in open /\ d \in Docs /\ StillWatched(d)
  BY <1>1, <1>4 DEF StillWatched
<1>7. ASSUME NEW next \in {"start_watch", "save_error_dialog", "encoding_dialog"}, Becomes(next)
      PROVE  Listening(d) => Listening(d)'
  <2>1. [Top EXCEPT !.op = next] \in Frame
    BY <1>3, GoesOnAs DEF Entries, Dialogs, OfNoDoc
  <2>2. calls' = Append(Below, [Top EXCEPT !.op = next])
    BY <1>7 DEF Becomes, Become
  <2> QED  BY <1>1, <1>3, <2>1, <2>2, SwappedListens DEF Telling
<1>8. ASSUME NEW t, Saved(e, t) PROVE Plain(d)' \/ Listening(d)'
  <2>1. Becomes("start_watch") /\ UNCHANGED hidden
        /\ disk' = [disk EXCEPT ![e] = t] /\ known' = [known EXCEPT ![e] = t]
    BY <1>8 DEF Saved
  <2>2. CASE d = e
    <3>1. disk'[d] = known'[d]
      BY <1>1, <1>6, <2>1, <2>2
    <3> QED  BY <3>1 DEF Plain
  <2>3. CASE d # e
    <3>1. disk'[d] = disk[d] /\ known'[d] = known[d] /\ hidden'[d] = hidden[d]
      BY <1>1, <1>6, <2>1, <2>3
    <3>2. Plain(d) => Plain(d)'
      BY <1>4, <1>6, <3>1, PlainStays
    <3> QED  BY <1>6, <1>7, <2>1, <3>2 DEF Noticed
  <2> QED  BY <2>2, <2>3
<1>9. ASSUME NEW next \in {"save_error_dialog", "encoding_dialog"}, Becomes(next), UNCHANGED files
      PROVE  Plain(d)' \/ Listening(d)'
  BY <1>4, <1>6, <1>7, <1>9, NoticedStill
<1>10. broken' = "write_error" => Plain(d)'
  BY DEF Plain
<1> QED  BY <1>5, <1>8, <1>9, <1>10 DEF NotSaved, NotConverted

LEMMA ReplacedPushedListens ==
    ASSUME calls \in Seq(Frame), calls # <<>>, NEW g \in Frame, NEW h \in Frame,
           calls' = Append(Append(Below, g), h), UNCHANGED ret,
           Top.op \notin Telling \cup {"start_watch"}, NEW d, Listening(d)
    PROVE  Listening(d)'
<1>1. PICK u \in Seq(Frame) : u = Append(Popped(calls), g)
  BY SwappedIs
<1>2. PICK t \in Seq(Frame) : t = Append(u, h)
  BY PushedIs
<1>3. /\ Len(u) = Len(calls) /\ Len(calls) \in Nat \ {0}
      /\ \A i \in 1 .. Len(calls) - 1 : u[i] = calls[i]
  BY <1>1, SwappedIs
<1>4. Len(t) = Len(u) + 1 /\ \A i \in 1 .. Len(u) : t[i] = u[i]
  BY <1>2, PushedIs
<1>5. t = calls' /\ calls[Len(calls)].op \notin Telling \cup {"start_watch"}
  BY <1>1, <1>2, TopIs
<1>6. \A i \in 1 .. Len(calls) : i = Len(calls) \/
          (i \in 1 .. Len(calls) - 1 /\ i \in 1 .. Len(u) /\ i \in 1 .. Len(t) /\ i # Len(t))
  BY <1>3, <1>4
<1>7. Told(calls, ret, d) => Told(t, ret, d)
  BY <1>3, <1>4, <1>5, <1>6 DEF Told
<1>8. Reading(calls, d) => Reading(t, d)
  BY <1>3, <1>4, <1>5, <1>6 DEF Reading
<1> QED  BY <1>5, <1>7, <1>8 DEF Listening

\* A close takes the watches of what it closes, and answers for nothing else.
LEMMA ClosingNoticed ==
    ASSUME WatchInvariant, CallsInvariant, Noticed,
           close_docs_real \/ save_changes_dialog \/ close_docs_real_saving \/ moo_editor_load_file_end
    PROVE  Noticed'
<1> SUFFICES ASSUME NEW d \in open' PROVE Plain(d)' \/ Listening(d)'
  BY DEF Noticed
<1>1. /\ calls \in Seq(Frame) /\ Stacked(calls) /\ TypeOK /\ open \subseteq Docs /\ ret \in BOOLEAN
  BY DEF WatchInvariant, TypeOK, CallsInvariant, Orderly
<1>2. PICK op \in {"close", "save_changes_dialog", "closing", "opening"} : In(op)
  BY Zenon DEF close_docs_real, save_changes_dialog, close_docs_real_saving, moo_editor_load_file_end
<1>3. calls # <<>> /\ Top \in Frame /\ Top.op = op /\ broken = "no" /\ Top.docs \subseteq Docs
  BY <1>1, <1>2, TheCall DEF In, Frame
<1>4. UNCHANGED files
  BY Zenon DEF close_docs_real, save_changes_dialog, close_docs_real_saving, moo_editor_load_file_end
<1>5. /\ op = "opening" => Top.doc \in Docs
      /\ \/ UNCHANGED <<open, watch>>
         \/ op # "opening" /\ CloseAll(Top.docs)
         \/ op = "opening" /\ Closed({Top.doc})
  <2>1. op = "opening" => Top.doc \in Docs
    BY <1>1, <1>2, TheCall DEF OfNoDoc
  <2>2. moo_editor_load_file_end => op = "opening"
    BY <1>3 DEF moo_editor_load_file_end, In
  <2>3. close_docs_real \/ save_changes_dialog \/ close_docs_real_saving => op # "opening"
    BY <1>3 DEF close_docs_real, save_changes_dialog, close_docs_real_saving, In
  <2>4. moo_editor_load_file_end => UNCHANGED <<open, watch>> \/ Closed({Top.doc})
    BY DEF moo_editor_load_file_end
  <2>5. close_docs_real => UNCHANGED <<open, watch>> \/ CloseAll(Top.docs)
    BY DEF close_docs_real
  <2>6. save_changes_dialog => UNCHANGED <<open, watch>> \/ CloseAll(Top.docs)
    BY DEF save_changes_dialog
  <2>7. close_docs_real_saving => UNCHANGED <<open, watch>> \/ CloseAll(Top.docs)
    BY DEF close_docs_real_saving
  <2> QED  BY <2>1, <2>2, <2>3, <2>4, <2>5, <2>6, <2>7
<1>6. /\ UNCHANGED <<open, watch>> \/ (\E ds \in SUBSET Docs : Closed(ds))
      /\ CloseAll(Top.docs) /\ broken' = "no" => d \notin Top.docs
  <2>1. CloseAll(Top.docs) =>
            \/ UNCHANGED <<open, watch>> /\ broken' = "closed_document"
            \/ Closed(Top.docs)
    BY DEF CloseAll
  <2>2. Closed(Top.docs) => d \notin Top.docs
    BY DEF Closed
  <2> QED  BY <1>3, <1>5, <2>1, <2>2
<1>7. d \in open /\ d \in Docs
  BY <1>1, <1>6 DEF Closed
<1>8. StillWatched(d)
  BY <1>6, <1>7, StoppingKeepsOthers DEF watch
<1>9. ASSUME Listening(d), broken' = "no" PROVE Listening(d)'
  <2>1. ASSUME Return(FALSE) PROVE Listening(d)'
    BY <1>1, <1>2, <1>3, <1>9, <2>1, PoppedListens DEF Telling
  <2>2. ASSUME CloseAll(Top.docs) PROVE Listening(d)'
    <3>1. Return(TRUE) /\ Top.docs # {d}
      BY <1>6, <1>9, <2>2 DEF CloseAll
    <3> QED  BY <1>1, <1>2, <1>3, <1>5, <1>9, <3>1, PoppedListens DEF Telling, Loading
  <2>3. ASSUME moo_editor_load_file_end PROVE Listening(d)'
    <3>1. Return(ret) /\ Top.op = "opening"
      BY <2>3 DEF moo_editor_load_file_end, In
    <3> QED  BY <1>1, <1>3, <1>9, <3>1, PoppedListens DEF Telling, Loading, Closing
  <2>4. ASSUME close_docs_real PROVE Listening(d)'
    <3>1. find_modified(Top.docs) \subseteq Docs
      BY <1>3 DEF find_modified
    <3>2. CASE Become([Top EXCEPT !.op = "save_changes_dialog", !.asked = find_modified(Top.docs)])
      <4>1. Top.op = "close"
        BY <2>4 DEF close_docs_real, In
      <4>2. [Top EXCEPT !.op = "save_changes_dialog", !.asked = find_modified(Top.docs)] \in Frame
        BY <1>3, <3>1, <4>1, GoesOnAs DEF Dialogs, OfNoDoc
      <4> QED  BY <1>1, <1>3, <1>9, <3>2, <4>1, <4>2, SwappedListens DEF Telling, Become
    <3> QED  BY <2>2, <2>4, <3>2 DEF close_docs_real
  <2>5. ASSUME save_changes_dialog PROVE Listening(d)'
    <3>1. ASSUME NEW ticked \in SUBSET Top.asked,
                 calls' = Append(Below, [Top EXCEPT !.op = "closing", !.save = ticked, !.asked = @ \ ticked])
          PROVE  Listening(d)'
      <4>1. Top.op = "save_changes_dialog"
        BY <2>5 DEF save_changes_dialog, In
      <4>2. [Top EXCEPT !.op = "closing", !.save = ticked, !.asked = @ \ ticked] \in Frame
        BY <1>3, <4>1 DEF Frame, Entries, OfNoDoc
      <4> QED  BY <1>1, <1>3, <1>9, <3>1, <4>1, <4>2, SwappedListens DEF Telling
    <3> QED  BY <2>1, <2>2, <2>5, <3>1 DEF save_changes_dialog
  <2>6. ASSUME close_docs_real_saving PROVE Listening(d)'
    <3>1. ASSUME NEW e \in Top.save, UNCHANGED ret,
                 calls' = Append(Append(Below, [Top EXCEPT !.save = @ \ {e}]), Call("save", e))
          PROVE  Listening(d)'
      <4>1. Top.op = "closing"
        BY <2>6 DEF close_docs_real_saving, In
      <4>2. [Top EXCEPT !.save = @ \ {e}] \in Frame /\ e \in Docs
        BY <1>3 DEF Frame
      <4>3. Call("save", e) \in Frame
        BY <4>2, NewCalls DEF Entries, OfNoDoc
      <4> QED  BY <1>1, <1>3, <1>9, <3>1, <4>1, <4>2, <4>3, ReplacedPushedListens DEF Telling
    <3> QED  BY <2>1, <2>2, <2>6, <3>1 DEF close_docs_real_saving
  <2> QED  BY <2>3, <2>4, <2>5, <2>6
<1>10. broken' # "no" => Plain(d)'
  BY DEF Plain
<1> QED  BY <1>3, <1>4, <1>7, <1>8, <1>9, <1>10, NoticedStill

\* An event is about one document, and marking one leaves the watches of the others.
LEMMA EventsKeepOthers ==
    ASSUME WatchInvariant, NEW id \in DOMAIN requests, NEW e \in Docs, requests[id].doc = e,
           NEW reqs, NEW flag, NEW ids, ids \in [Docs -> MonitorIds \cup {0}],
           DOMAIN reqs = DOMAIN requests, ids[e] \in {0, file_monitor_id[e]},
           \A i \in DOMAIN requests : i # id => reqs[i].newer = requests[i].newer,
           \A d \in Docs : d # e => ids[d] = file_monitor_id[d],
           \/ requests' = reqs /\ file_monitor_id' = ids
           \/ Marked(e, flag, reqs, ids)
    PROVE  \A d \in Docs : d # e => StillWatched(d)
<1> SUFFICES ASSUME NEW d \in Docs, d # e PROVE StillWatched(d)
  OBVIOUS
<1>1. file_monitor_id'[d] = file_monitor_id[d]
  BY DEF Marked
<1>2. CASE file_monitor_id[d] # 0
  <2>1. /\ file_monitor_id[d] \in DOMAIN requests /\ file_monitor_id[d] # id
        /\ file_monitor_id[d] # file_monitor_id[e]
    BY <1>2, OwnMonitor
  <2>2. requests'[file_monitor_id[d]] = reqs[file_monitor_id[d]]
    BY <1>2, <2>1 DEF Marked
  <2> QED  BY <1>1, <2>1, <2>2 DEF StillWatched
<1> QED  BY <1>1, <1>2 DEF StillWatched

\* What the poll takes from a monitor it tells the document.
LEMMA PollingNoticed ==
    ASSUME WatchInvariant, CallsInvariant, Noticed, NEW id \in MonitorIds, do_stat_one(id)
    PROVE  Noticed'
<1> SUFFICES ASSUME NEW d \in open' PROVE Plain(d)' \/ Listening(d)'
  BY DEF Noticed
<1>1. /\ calls \in Seq(Frame) /\ TypeOK /\ open \subseteq Docs
      /\ file_monitor_id \in [Docs -> MonitorIds \cup {0}]
      /\ requests \in [DOMAIN requests -> Monitor]
  BY DEF WatchInvariant, TypeOK
<1>2. UNCHANGED files /\ UNCHANGED <<open, broken>> /\ d \in open /\ d \in Docs
  BY <1>1 DEF do_stat_one
<1> SUFFICES Listening(d)' \/ (StillWatched(d) /\ (Listening(d) => Listening(d)'))
  BY <1>2, NoticedStill
<1> DEFINE e == requests[id].doc
           zeroed == [file_monitor_id EXCEPT ![e] = 0]
           close == [Call("close", NoDoc) EXCEPT !.docs = {e}]
           dead == [requests EXCEPT ![id].alive = FALSE]
           seen == [requests EXCEPT ![id].newer = FALSE]
<1>3. \/ /\ id \in DOMAIN requests
         /\ \/ Event(e, "DELETED", "file_deleted", close, requests, zeroed)
            \/ Event(e, "MODIFIED_ON_DISK", "file_modified_on_disk", Call("reload", e), dead, zeroed)
            \/ Event(e, "MODIFIED_ON_DISK", "file_modified_on_disk", Call("reload", e), seen,
                     file_monitor_id)
      \/ UNCHANGED <<requests, file_monitor_id, calls, ret>>
  BY DEF do_stat_one
<1>4. ASSUME UNCHANGED <<requests, file_monitor_id, calls, ret>>
      PROVE  StillWatched(d) /\ (Listening(d) => Listening(d)')
  BY <1>4, StaysListens DEF StillWatched
<1>5. ASSUME id \in DOMAIN requests,
             NEW flag, NEW callback \in Telling, NEW callee \in Frame, NEW reqs, NEW ids,
             Event(e, flag, callback, callee, reqs, ids),
             \/ reqs \in {requests, dead} /\ ids = zeroed
             \/ reqs = seen /\ ids = file_monitor_id
      PROVE  Listening(d)' \/ (StillWatched(d) /\ (Listening(d) => Listening(d)'))
  <2>1. e \in Docs
    BY <1>1, <1>5 DEF Monitor
  <2>2. /\ ids \in [Docs -> MonitorIds \cup {0}] /\ ids[e] \in {0, file_monitor_id[e]}
        /\ \A c \in Docs : c # e => ids[c] = file_monitor_id[c]
        /\ reqs # seen => ids[e] = 0
    BY <1>1, <1>5, <2>1
  <2>3. DOMAIN reqs = DOMAIN requests
        /\ \A i \in DOMAIN requests : i # id => reqs[i].newer = requests[i].newer
    BY <1>5
  <2>4. \/ requests' = reqs /\ file_monitor_id' = ids
           /\ calls' = calls \o <<Call(callback, e), callee>> /\ UNCHANGED ret
        \/ Marked(e, flag, reqs, ids) /\ UNCHANGED <<calls, ret>>
    BY <1>5 DEF Event
  <2>5. PICK f \in Frame : f = Call(callback, e)
    BY <2>1, NewCalls DEF Entries, OfNoDoc, Telling
  <2>6. f.op \in Telling /\ f.doc = e
    BY <2>5 DEF Call
  <2>7. calls \o <<f, callee>> = Append(Append(calls, f), callee)
    BY <1>1
  <2>8. /\ Listening(d) => Listening(d)'
        /\ calls' = calls \o <<Call(callback, e), callee>> /\ d = e => Listening(d)'
    <3>1. CASE calls' = Append(Append(calls, f), callee)
      BY <1>1, <2>6, <3>1, PushedTwoListens
    <3>2. CASE UNCHANGED <<calls, ret>>
      <4>1. Listening(d) => Listening(d)'
        BY <3>2, StaysListens
      <4> QED  BY <2>5, <2>7, <3>1, <4>1
    <3> QED  BY <2>4, <2>5, <2>7, <3>1, <3>2
  <2>9. CASE d # e
    <3>1. \/ requests' = reqs /\ file_monitor_id' = ids
          \/ Marked(e, flag, reqs, ids)
      BY <2>4
    <3>2. id \in DOMAIN requests /\ requests[id].doc = e
      BY <1>5
    <3> HIDE DEF e, zeroed, close, dead, seen
    <3>3. \A c \in Docs : c # e => StillWatched(c)
      BY <2>1, <2>2, <2>3, <3>1, <3>2, EventsKeepOthers
    <3> QED  BY <1>2, <2>8, <2>9, <3>3
  <2>10. CASE d = e
    <3>1. Marked(e, flag, reqs, ids) => file_monitor_id'[d] = 0
      BY <2>1, <2>2, <2>10 DEF Marked
    <3>2. file_monitor_id' = zeroed => file_monitor_id'[d] = 0
      BY <1>1, <2>1, <2>10
    <3> QED  BY <1>5, <2>4, <2>8, <2>10, <3>1, <3>2 DEF StillWatched
  <2> QED  BY <2>9, <2>10
<1>6. ASSUME id \in DOMAIN requests
      PROVE  close \in Frame /\ Call("reload", e) \in Frame
  <2>1. e \in Docs
    BY <1>1, <1>6 DEF Monitor
  <2> QED  BY <2>1, NewCalls, NewBatches DEF Entries, OfNoDoc
<1> HIDE DEF e, zeroed, close, dead, seen
<1> QED
  <2>1. {"file_deleted", "file_modified_on_disk"} = Telling
    BY DEF Telling
  <2> QED  BY <1>3, <1>4, <1>5, <1>6, <2>1

\* A document that could not be reloaded or closed is marked, and not watched.
LEMMA TriedNoticed ==
    ASSUME WatchInvariant, CallsInvariant, Noticed, file_modified_on_disk \/ file_deleted
    PROVE  Noticed'
<1> SUFFICES ASSUME NEW d \in open' PROVE Plain(d)' \/ Listening(d)'
  BY DEF Noticed
<1>1. /\ calls \in Seq(Frame) /\ Stacked(calls) /\ TypeOK /\ open \subseteq Docs /\ ret \in BOOLEAN
      /\ file_monitor_id \in [Docs -> MonitorIds \cup {0}]
  BY DEF WatchInvariant, TypeOK, CallsInvariant, Orderly
<1>2. PICK op \in Telling : In(op)
  BY DEF file_modified_on_disk, file_deleted, Telling
<1>3. calls # <<>> /\ Top.op \in Telling /\ Top.doc \in Docs
  BY <1>1, <1>2, TheCall DEF OfNoDoc, Telling
<1>4. /\ UNCHANGED files /\ UNCHANGED <<open, broken>> /\ Return(ret)
      /\ \E flag : Tried(flag)
  BY DEF file_modified_on_disk, file_deleted
<1>5. d \in open /\ d \in Docs
  BY <1>1, <1>4
<1>6. CASE ret
  <2>1. StillWatched(d)
    BY <1>4, <1>6 DEF Tried, StillWatched
  <2>2. Listening(d) => Listening(d)'
    BY <1>1, <1>3, <1>4, <1>6, PoppedListens DEF Telling, Loading, Closing
  <2> QED  BY <1>4, <1>5, <2>1, <2>2, NoticedStill
<1>7. CASE ~ret
  <2>1. \E flag : Marked(Top.doc, flag, requests, file_monitor_id)
    BY <1>4, <1>7 DEF Tried
  <2>2. CASE d = Top.doc
    <3>1. file_monitor_id'[d] = 0
      BY <1>1, <1>5, <2>1, <2>2 DEF Marked
    <3> QED  BY <3>1 DEF Plain
  <2>3. CASE d # Top.doc
    <3>1. StillWatched(d)
      BY <1>3, <1>5, <2>1, StoppingKeepsOthers
    <3>2. Listening(d) => Listening(d)'
      BY <1>1, <1>3, <1>4, <1>7, <2>3, PoppedListens DEF Telling
    <3> QED  BY <1>4, <1>5, <3>1, <3>2, NoticedStill
  <2> QED  BY <2>2, <2>3
<1> QED  BY <1>1, <1>6, <1>7

LEMMA NoticedInit == Init => Noticed
BY DEF Init, Noticed, Plain

LEMMA NoticedStep == WatchInvariant /\ CallsInvariant /\ Noticed /\ [Next]_vars => Noticed'
<1> SUFFICES ASSUME WatchInvariant, CallsInvariant, Noticed, [Next]_vars PROVE Noticed'
  OBVIOUS
<1>1. CASE UNCHANGED vars
  <2>1. ASSUME NEW d PROVE (Plain(d) => Plain(d)') /\ (Listening(d) => Listening(d)')
    BY <1>1, StaysListens DEF vars, Plain
  <2> QED  BY <1>1, <2>1 DEF Noticed, vars
<1>2. CASE Next
  <2>1. \/ (\E d \in Docs : Typed(d) \/ DeletedByOthers(d))
           \/ (\E d \in Docs, later \in BOOLEAN : WrittenByOthers(d, later))
        \/ Commands \/ do_stat \/ (\E d \in Docs, src \in {"named", "lost"} : Dispatched(d, src))
           \/ moo_editor_reload \/ reload_dialog \/ _moo_edit_load_file \/ try_encoding_dialog
           \/ reload_error_dialog \/ moo_editor_save \/ overwrite_dialog \/ encoding_dialog
           \/ save_error_dialog \/ autosync_callback_end \/ do_stat_end \/ GoesOnWithAClosed
        \/ moo_editor_load_file \/ moo_edit_load_text \/ _moo_edit_start_file_watch
        \/ (do_save \/ do_save_utf8)
        \/ (close_docs_real \/ save_changes_dialog \/ close_docs_real_saving \/ moo_editor_load_file_end)
        \/ (\E id \in MonitorIds : do_stat_one(id))
        \/ (file_modified_on_disk \/ file_deleted)
    BY <1>2, Zenon DEF Next, Answer, Program
  <2> QED
    BY <2>1, OutsideNoticed, GoingOnNoticed, OpeningNoticed, LoadingNoticed, WatchingNoticed,
       SavingNoticed, ClosingNoticed, PollingNoticed, TriedNoticed
<1> QED  BY <1>1, <1>2

LEMMA NoticedIsEnough == TypeOK /\ Noticed => WatchedChangeIsDue
<1> SUFFICES ASSUME TypeOK, Noticed, NEW d \in open, Listening(d) PROVE BeingTold(d) \/ BeingRead(d)
  BY DEF Noticed, WatchedChangeIsDue, Plain
<1>1. DOMAIN calls = 1 .. Len(calls)
  BY DEF TypeOK
<1>2. Told(calls, ret, d) => BeingTold(d)
  BY <1>1 DEF Told, BeingTold, Telling
<1>3. Reading(calls, d) => BeingRead(d)
  BY <1>1 DEF Reading, BeingRead
<1> QED  BY <1>2, <1>3 DEF Listening

\* While a document is watched and its file is not what was read or written last, in
\* a way that a stat() can show, the next look shows it, or somebody is about to read
\* or mark the document: no event is taken from a monitor and then dropped, because a
\* reload was declined, a close did not happen, or another document was reloaded inside
\* the poll.  A change that a save of the document replaces before the next look, and
\* one made while its text is read, is not one of those (mooedit-fileops.cpp:950-992).
THEOREM WatchedChangesAreDue == Spec => []WatchedChangeIsDue
<1>1. WatchInvariant /\ Noticed => WatchedChangeIsDue
  BY NoticedIsEnough DEF WatchInvariant
<1> QED
  BY WatchInit, WatchInvariantKept, CallsInit, CallsStep, NoticedInit, NoticedStep, <1>1, PTL DEF Spec

=============================================================================
