----------------------------- MODULE UndoStack -----------------------------
(***************************************************************************)
(* The undo stack (mooundo.cpp) under a text buffer (mootextbuffer.cpp):   *)
(* how edits become actions, how actions are merged and grouped, how undo  *)
(* and redo apply them, and the pointer by which the buffer finds back to  *)
(* the text that is in the file.                                           *)
(*                                                                         *)
(* A text is a sequence of characters: a letter, a blank or a line end.    *)
(* The edits a handler makes between begin_user_action and end_user_action *)
(* are steps of their own; the main loop does not run between them.  The   *)
(* stack is frozen only inside Undo, Redo and LoadEmpty, each one step, so *)
(* "frozen" is always 0 between the steps.                                 *)
(***************************************************************************)
EXTENDS Naturals, SequencesExt

CONSTANTS
    Letter,
    Input,          \* what one insertion inserts
    File,           \* the texts a file has
    MaxLength,      \* bound: characters of a text
    MaxMade,        \* bound: actions made before the last edit
    MaxNesting      \* bound: user actions inside each other

Blank == "blank"
LineEnd == "line end"
Char == Letter \cup {Blank, LineEnd}

None == 0

ASSUME UndoAssumption ==
    /\ {Blank, LineEnd} \cap Letter = {}
    /\ {MaxLength, MaxMade, MaxNesting} \subseteq Nat
    /\ Input \subseteq Seq(Letter \cup {Blank, LineEnd}) \ {<<>>}
    /\ \A t \in File : t \in Seq(Letter \cup {Blank, LineEnd}) /\ Len(t) <= MaxLength

VARIABLES
    buffer,             \* the buffer with its undo stack
    continue_group,     \* also MooTextBuffer.user_action_count
    file,               \* the text that was last loaded or saved
    untitled            \* the document has no file yet

vars == <<buffer, continue_group, file, untitled>>

Text == {t \in Seq(Char) : Len(t) <= MaxLength}

(* An action by the number it was made with, which stands for its address. *)
(* pos is where its text starts, MooDeleteAction.start included.           *)
Action == [type : {"insert", "delete"}, id : 1 .. MaxMade + 2, pos : 0 .. MaxLength,
           text : Text \ {<<>>}, interactive : BOOLEAN, mergeable : BOOLEAN,
           forward : BOOLEAN]

Group == Seq(Action) \ {<<>>}       \* the latest action first

Buffer ==
    [text : Text,
     modified : BOOLEAN,
     modifying_action : 0 .. MaxMade + 2,   \* by whom modified became TRUE
     undo_stack : Seq(Group),               \* the latest group first
     redo_stack : Seq(Group),               \* the next group first
     new_group : BOOLEAN,
     do_continue : BOOLEAN,
     made : 0 .. MaxMade + 2]               \* actions made so far

-----------------------------------------------------------------------------
(* Texts *)

\* Characters from a up to b, counted from 0.
Slice(t, a, b) == SubSeq(t, a + 1, b)

Inserted(t, pos, s) == Slice(t, 0, pos) \o s \o Slice(t, pos, Len(t))

Deleted(t, pos, n) == Slice(t, 0, pos) \o Slice(t, pos + n, Len(t))

\* What insert_action_redo() and delete_action_redo() do to the text.
Applied(t, a) ==
    IF a.type = "insert" THEN Inserted(t, a.pos, a.text)
                         ELSE Deleted(t, a.pos, Len(a.text))

\* What insert_action_undo() and delete_action_undo() do to it.
Unapplied(t, a) ==
    IF a.type = "insert" THEN Deleted(t, a.pos, Len(a.text))
                         ELSE Inserted(t, a.pos, a.text)

-----------------------------------------------------------------------------
(* Merging *)

\* insert_action_new(), delete_action_new()
Mergeable(s) == Len(s) = 1 /\ s[1] # LineEnd

\* A mutant: the first edit after a save is merged as any other.
AnyTwo(b, last, a) ==
    last.mergeable /\ a.mergeable /\ last.interactive = a.interactive

\* action_merge().  The edit of an unmodified text is the modifying action.
MayMerge(b, last, a) ==
    /\ last.mergeable /\ a.mergeable
    /\ b.modified
    /\ last.interactive = a.interactive

\* A letter is not merged with the blanks before it.
StartsWord(c, before) == c # Blank /\ before = Blank

\* insert_action_merge()
Follows(last, a) ==
    /\ a.pos = last.pos + Len(last.text)
    /\ ~ StartsWord(a.text[1], Last(last.text))

\* delete_action_merge(), with the Delete key
DeletedAfter(last, a) ==
    /\ last.forward = a.forward
    /\ last.pos = a.pos
    /\ ~ StartsWord(a.text[1], Last(last.text))

\* delete_action_merge(), with the Backspace key
DeletedBefore(last, a) ==
    /\ last.forward = a.forward
    /\ last.pos = a.pos + Len(a.text)
    /\ ~ StartsWord(a.text[1], Head(last.text))

Merges(b, last, a) ==
    /\ last.type = a.type
    /\ MayMerge(b, last, a)
    /\ \/ a.type = "insert" /\ Follows(last, a)
       \/ a.type = "delete" /\ (DeletedAfter(last, a) \/ DeletedBefore(last, a))

Merged(last, a) ==
    IF a.type = "delete" /\ DeletedBefore(last, a)
    THEN [last EXCEPT !.text = a.text \o @, !.pos = a.pos]
    ELSE [last EXCEPT !.text = @ \o a.text]

\* An action that refused one of its type takes no other.
Refused(last, a) ==
    IF last.type = a.type THEN [last EXCEPT !.mergeable = FALSE] ELSE last

-----------------------------------------------------------------------------
(* moo_undo_stack_add_action() *)

StartsGroup(b) == b.undo_stack = <<>> \/ b.new_group

\* A mutant: what a user action goes on with is a group of its own.
NeverContinues(b) == FALSE

Continues(b) == b.do_continue

\* The undo stack with the action a.
WithAction(b, a) ==
    IF StartsGroup(b)
    THEN <<<<a>>>> \o b.undo_stack
    ELSE LET last    == Head(Head(b.undo_stack))
             others  == Tail(Head(b.undo_stack))
             refused == <<Refused(last, a)>> \o others
             groups  == Tail(b.undo_stack) IN
         CASE Merges(b, last, a) -> <<<<Merged(last, a)>> \o others>> \o groups
           [] ~ Merges(b, last, a) /\ Continues(b) -> <<<<a>> \o refused>> \o groups
           [] OTHER -> <<<<a>>, refused>> \o groups

\* The actions of a stack in the order in which undo, or redo, takes them.
UndoOrder(b) == FlattenSeq(b.undo_stack)
RedoGroups(b) == [i \in DOMAIN b.redo_stack |-> Reverse(b.redo_stack[i])]
RedoOrder(b) == FlattenSeq(RedoGroups(b))

\* A mutant: whatever is done last is remembered as what modified the text.
LatestModifier(b, a) == a.id

\* Who modified the text, when a is done, undone or redone.
Modifier(b, a) == IF b.modified THEN b.modifying_action ELSE a.id

\* edit_action_destroy() of what could be redone
Forgotten(action, b) ==
    IF \E a \in Range(RedoOrder(b)) : a.id = action THEN None ELSE action

\* The buffer after an insertion or a deletion: action_new(), add_action, the
\* change of the text, and GTK's modified flag.
Edited(b, type, pos, s, interactive, forward, inAction) ==
    LET a == [type |-> type, id |-> b.made + 1, pos |-> pos, text |-> s,
              interactive |-> interactive, mergeable |-> Mergeable(s),
              forward |-> interactive /\ forward] IN
    [text             |-> Applied(b.text, a),
     modified         |-> TRUE,
     modifying_action |-> Forgotten(Modifier(b, a), b),
     undo_stack       |-> WithAction(b, a),
     redo_stack       |-> <<>>,
     new_group        |-> FALSE,
     do_continue      |-> b.do_continue \/ inAction,
     made             |-> a.id]

\* action_undo_or_redo() after the text is changed
UndoneOrRedone(b, a, t) ==
    IF b.modified /\ b.modifying_action = a.id
    THEN [b EXCEPT !.text = t, !.modified = FALSE, !.modifying_action = None]
    ELSE [b EXCEPT !.text = t, !.modified = TRUE,
                   !.modifying_action = Modifier(b, a)]

\* An action undone, or redone, and many of them.
Step(undoing, b, a) ==
    UndoneOrRedone(b, a, IF undoing THEN Unapplied(b.text, a) ELSE Applied(b.text, a))
Walked(undoing, b, actions) ==
    LET after[i \in 0 .. Len(actions)] ==
            IF i = 0 THEN b ELSE Step(undoing, after[i - 1], actions[i]) IN
    after[Len(actions)]

\* action_group_undo(), action_group_redo()
GroupUndone(b, group) == Walked(TRUE, b, group)
GroupRedone(b, group) == Walked(FALSE, b, Reverse(group))

\* gtk_text_buffer_set_modified (FALSE), with modified_changed()
Unmodified(b) == [b EXCEPT !.modified = FALSE, !.modifying_action = None]

-----------------------------------------------------------------------------
(* The document *)

Init ==
    /\ buffer = [text |-> <<>>, modified |-> FALSE, modifying_action |-> None,
                 undo_stack |-> <<>>, redo_stack |-> <<>>, new_group |-> FALSE,
                 do_continue |-> FALSE, made |-> 0]
    /\ continue_group = 0
    /\ file = <<>>
    /\ untitled = TRUE

InMainLoop == continue_group = 0

begin_user_action ==
    /\ continue_group < MaxNesting
    /\ continue_group' = continue_group + 1
    /\ UNCHANGED <<buffer, file, untitled>>

\* A mutant: the end of a user action leaves its group open.
end_of_nothing ==
    /\ continue_group > 0
    /\ continue_group' = continue_group - 1
    /\ UNCHANGED <<buffer, file, untitled>>

end_user_action ==
    /\ continue_group > 0
    /\ continue_group' = continue_group - 1
    /\ buffer' = [buffer EXCEPT !.do_continue = @ /\ continue_group' > 0]
    /\ UNCHANGED <<file, untitled>>

\* insert_text() and delete_range(), called by the user's input inside a user
\* action and by a program anywhere.
insert_text ==
    /\ buffer.made < MaxMade
    /\ \E pos \in 0 .. Len(buffer.text), s \in Input :
          /\ Len(buffer.text) + Len(s) <= MaxLength
          /\ buffer' = Edited(buffer, "insert", pos, s, continue_group > 0, FALSE,
                              continue_group > 0)
    /\ UNCHANGED <<continue_group, file, untitled>>

delete_range ==
    /\ buffer.made < MaxMade
    /\ \E pos, end \in 0 .. Len(buffer.text), forward \in BOOLEAN :
          /\ pos < end
          /\ buffer' = Edited(buffer, "delete", pos, Slice(buffer.text, pos, end),
                              continue_group > 0, forward, continue_group > 0)
    /\ UNCHANGED <<continue_group, file, untitled>>

undo ==
    /\ InMainLoop
    /\ buffer.undo_stack # <<>>
    /\ LET group == Head(buffer.undo_stack) IN
       buffer' = GroupUndone([buffer EXCEPT !.undo_stack = Tail(@),
                                            !.redo_stack = <<group>> \o @,
                                            !.new_group = TRUE], group)
    /\ UNCHANGED <<continue_group, file, untitled>>

redo ==
    /\ InMainLoop
    /\ buffer.redo_stack # <<>>
    /\ LET group == Head(buffer.redo_stack) IN
       buffer' = GroupRedone([buffer EXCEPT !.redo_stack = Tail(@),
                                            !.undo_stack = <<group>> \o @,
                                            !.new_group = TRUE], group)
    /\ UNCHANGED <<continue_group, file, untitled>>

save ==
    /\ InMainLoop
    /\ file' = buffer.text
    /\ buffer' = Unmodified(buffer)
    /\ untitled' = FALSE
    /\ UNCHANGED continue_group

\* moo_edit_load_text() into an empty document, which cannot be undone:
\* moo_undo_stack_freeze() clears the stack.
load_into_empty ==
    /\ InMainLoop
    /\ untitled /\ ~ buffer.modified /\ buffer.text = <<>>
    /\ \E t \in File :
          /\ file' = t
          /\ buffer' = Unmodified([buffer EXCEPT !.text = t, !.undo_stack = <<>>,
                                       !.redo_stack = <<>>, !.new_group = FALSE])
    /\ untitled' = FALSE
    /\ UNCHANGED continue_group

\* moo_edit_load_text() when the document is not empty: one user action, whose
\* edits are not interactive, deletes the text and inserts the new one.
reload ==
    /\ InMainLoop
    /\ ~ untitled
    /\ buffer.made < MaxMade
    /\ \E t \in File :
          LET emptied == IF buffer.text = <<>> THEN buffer
                         ELSE Edited(buffer, "delete", 0, buffer.text, FALSE, FALSE, TRUE)
              loaded  == IF t = <<>> THEN emptied
                         ELSE Edited(emptied, "insert", 0, t, FALSE, FALSE, TRUE) IN
          /\ file' = t
          /\ buffer' = Unmodified([loaded EXCEPT !.do_continue = FALSE])
    /\ UNCHANGED <<continue_group, untitled>>

Next ==
    \/ begin_user_action \/ end_user_action
    \/ insert_text \/ delete_range
    \/ undo \/ redo
    \/ save \/ load_into_empty \/ reload

Spec == Init /\ [][Next]_vars

-----------------------------------------------------------------------------
(* Properties *)

\* The stacks and flags have their types, and a user action that goes on has
\* something to go on with (moo_undo_stack_add_action() uses the group on top).
TypeOK ==
    /\ buffer \in Buffer
    /\ continue_group \in 0 .. MaxNesting
    /\ file \in Text
    /\ untitled \in BOOLEAN
    /\ buffer.do_continue => continue_group > 0 /\ buffer.undo_stack # <<>>

\* A document that is not shown as modified has the text of its file: unsaved
\* text is never closed without a question.  And there is no modifying action
\* then, which action_undo_or_redo() asserts.
UnmodifiedIsSaved ==
    ~ buffer.modified => /\ buffer.text = file
                         /\ buffer.modifying_action = None

\* The text after undoing, or redoing, the actions up to the one with the identity id.
TextAt(undoing, actions, id) ==
    LET n == CHOOSE i \in DOMAIN actions : actions[i].id = id IN
    Walked(undoing, buffer, SubSeq(actions, 1, n)).text

\* The action that modified the text is still on a stack, never freed, and
\* undoing or redoing up to it, through whatever was merged and grouped since,
\* is the way to the text of the file.
ModifierLeadsToFile ==
    LET id == buffer.modifying_action IN
    id # None =>
        \/ /\ \E a \in Range(UndoOrder(buffer)) : a.id = id
           /\ TextAt(TRUE, UndoOrder(buffer), id) = file
        \/ /\ \E a \in Range(RedoOrder(buffer)) : a.id = id
           /\ TextAt(FALSE, RedoOrder(buffer), id) = file

\* The texts that undoing, or redoing, the groups of a stack one by one gives.
TextsAlong(undoing, b, groups) ==
    LET after[i \in 0 .. Len(groups)] ==
            IF i = 0 THEN b ELSE Walked(undoing, after[i - 1], groups[i]) IN
    [i \in DOMAIN groups |-> after[i].text]

Past(b)   == TextsAlong(TRUE, b, b.undo_stack)
Future(b) == TextsAlong(FALSE, b, RedoGroups(b))

History == INSTANCE UndoHistory WITH
    text   <- buffer.text,
    past   <- Past(buffer),
    future <- Future(buffer),
    inside <- buffer.do_continue

\* Undo and redo walk along the texts the document had, whatever was merged and
\* grouped, and a user action is undone as a whole.
FollowsHistory == History!Spec

=============================================================================
