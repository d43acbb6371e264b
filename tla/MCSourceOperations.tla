-------------------------- MODULE MCSourceOperations --------------------------
(* Small instances of SourceOperations.                                    *)
EXTENDS SourceOperations

Do(action, from, to, collision, prior) ==
    [action |-> action, from |-> from, to |-> to, collision |-> collision, prior |-> prior]

Move == Do("move", 1, 2, "replace", 0)

\* a replacing move, a trash of what it left, and its undo
MoveTrashUndo == <<Move, Do("trash", 2, 0, "fail", 0), Do("undo", 0, 0, "fail", 1)>>
\* a replacing move, a copy back to its source unless that is taken, a trash of its output
MoveCopyTrash == <<Move, Do("copy", 2, 1, "skip", 0), Do("trash", 2, 0, "fail", 0)>>
TrashUndo == <<Do("trash", 1, 0, "fail", 0), Do("undo", 0, 0, "fail", 1)>>
===============================================================================
