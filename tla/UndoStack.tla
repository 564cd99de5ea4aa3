----------------------------- MODULE UndoStack -----------------------------
(***************************************************************************)
(* What an undo stack with a cap promises (EditorUndo.cpp): undoing and    *)
(* redoing lead through the scenes there were, and the scene counts as     *)
(* saved where it is the one that was saved.  Scenes are whatever they     *)
(* are; how a command is undone is EditorUndo's.                           *)
(***************************************************************************)
EXTENDS Integers, Sequences

CONSTANT MaxDepth   \* EditorUndoStack::MaxDepth

VARIABLES
  now,         \* the scene, but for what a held widget is changing
  shots,       \* the scene at every depth that can be undone or redone to
  depth,       \* how many entries can be undone
  savedDepth,  \* m_SavedDepth
  saved,       \* the scene as it was saved or opened
  strayed,     \* the scene was changed without the stack
  lost         \* the saved scene is at no depth of the stacks any more

stackVars == <<now, shots, depth, savedDepth, saved, strayed, lost>>

StackInit ==
  /\ shots = <<now>> /\ depth = 0 /\ savedDepth = 0 /\ saved = now
  /\ ~strayed /\ ~lost

\* A change is recorded: nothing can be redone, the oldest entry goes when there are too
\* many, and the saved depth with it.
PushEntry ==
  LET seen == Append(SubSeq(shots, 1, depth + 1), shots'[Len(shots')])
      full == depth = MaxDepth
  IN
  /\ shots' = (IF full THEN Tail(seen) ELSE seen)
  /\ depth' = (IF full THEN depth ELSE depth + 1)
  /\ savedDepth' = (IF ~full THEN savedDepth ELSE IF savedDepth > 0 THEN savedDepth - 1 ELSE -1)
  /\ lost' = (lost \/ savedDepth > depth)
  /\ strayed => strayed'
  /\ ~strayed' => now' = shots'[depth' + 1]
  /\ UNCHANGED saved

\* To the scene one below, or one above.
StepTo(d) ==
  /\ d + 1 \in DOMAIN shots /\ depth' = d
  /\ strayed => strayed'
  /\ ~strayed' => now' = shots[d + 1]
  /\ UNCHANGED <<shots, savedDepth, saved, lost>>

UndoEntry == depth > 0 /\ StepTo(depth - 1)
RedoEntry == StepTo(depth + 1)

\* What a held widget is changing may be saved with the scene, which then is at no depth.
MarkSaved ==
  /\ savedDepth' = depth
  /\ ~strayed /\ ~lost' => saved' = now
  /\ lost' \in BOOLEAN
  /\ UNCHANGED <<now, shots, depth, strayed>>

\* Clear, with the scene that was saved.
Clear ==
  /\ now' = saved /\ shots' = <<saved>> /\ depth' = 0 /\ savedDepth' = 0
  /\ ~strayed' /\ ~lost'
  /\ UNCHANGED saved

Stray ==
  /\ strayed'
  /\ UNCHANGED <<shots, depth, savedDepth, saved, lost>>

StackNext == PushEntry \/ UndoEntry \/ RedoEntry \/ MarkSaved \/ Clear \/ Stray

StackSpec == StackInit /\ [][StackNext]_stackVars

-----------------------------------------------------------------------------
\* "The round-trip theorem": undone to any depth, and redone to any, the scene is the one
\* there was at that depth, but for what a held widget is changing and for changes that
\* were made beside the stack.
RoundTrip == ~strayed => now = shots[depth + 1]

\* IsDirtySinceSave: a scene that is shown as saved is the file, however it came back to
\* the saved depth and whatever fell off the bottom, unless the saved scene is not on the
\* stacks any more.
CleanIsSaved == savedDepth = depth /\ ~strayed /\ ~lost => now = saved
=============================================================================
