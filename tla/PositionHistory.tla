--------------------------- MODULE PositionHistory ---------------------------
(***************************************************************************)
(* The move history of one managed actor (transform_history.py) with the   *)
(* bridge handler that drives it, apply_position_history: an intent is     *)
(* written, the actor is moved, the pose is read back from the simulator,  *)
(* and only then does the history advance.  A handler runs from its first  *)
(* to its last line under the simulation lock, so it is one action; what   *)
(* can cut it short is a parameter of the action.  Requests that name an   *)
(* old revision, or an old pose, are refused and change nothing.           *)
(* Poses are numbers; same_pose compares them with a tolerance, and the    *)
(* simulator settles an actor within that tolerance of where it was put.   *)
(***************************************************************************)
EXTENDS Integers, Sequences

CONSTANTS
    MaxPose,        \* poses are 0 .. MaxPose
    Tolerance,      \* .02 m and .05 degrees in the code
    Limit,          \* LIMIT, 1000 in the code
    MaxMoves        \* bound of a run: operations on the history

ASSUME PositionAssumption ==
    MaxPose \in Nat /\ Tolerance \in Nat /\ Limit \in Nat /\ MaxMoves \in Nat

VARIABLES
    pose,       \* where the actor is in the simulator
    chain,      \* current.json: entries, cursor, pending intent
    archived,   \* the chains set aside in files of their own
    outside,    \* history: moved by something else since the last entry
    moves       \* bound: operations so far

positionVars == <<pose, chain, archived, outside, moves>>

Poses == 0 .. MaxPose
NoIntent == [kind |-> "none"]
Near(p, q) == p - q \in -Tolerance .. Tolerance

(* read: the checks every file must pass before anything is done with it,  *)
(* or else every later request for this actor fails.                       *)
Readable(c) ==
    LET n == Len(c.entries)
        p == c.pending
    IN  /\ c.cursor \in 0 .. n
        /\ n <= Limit
        /\ \A i \in 1 .. n - 1 : Near(c.entries[i].after, c.entries[i + 1].before)
        /\ p.kind = "record" =>
              /\ c.cursor = n /\ n < Limit
              /\ n > 0 => Near(c.entries[n].after, p.source)
        /\ p.kind = "undo" =>
              /\ c.cursor > 0
              /\ Near(c.entries[c.cursor].after, p.source)
              /\ c.entries[c.cursor].before = p.target
        /\ p.kind = "redo" =>
              /\ c.cursor < n
              /\ Near(c.entries[c.cursor + 1].before, p.source)
              /\ c.entries[c.cursor + 1].after = p.target

PositionInit ==
    /\ pose = 0
    /\ chain = [entries |-> <<>>, cursor |-> 0, pending |-> NoIntent]
    /\ archived = {} /\ outside = FALSE /\ moves = 0

(* The actor is not where the last applied entry left it.                  *)
External ==
    chain.cursor > 0 /\ ~Near(chain.entries[chain.cursor].after, pose)

(* begin, record: the entries the new one will follow.                     *)
Extended == IF External THEN <<>> ELSE SubSeq(chain.entries, 1, chain.cursor)

(* Mutant of SetAside: the redo branch is overwritten, not archived.       *)
SetAsideIfExternal(kind) == kind = "record" /\ External

SetAside(kind) == kind = "record" /\ chain.entries # Extended

(* begin: is this a request that may be started from the present pose?     *)
Intended(kind, target) ==
    CASE kind = "record" -> target # pose /\ Len(Extended) < Limit
      [] kind = "undo"   -> /\ chain.cursor > 0
                            /\ Near(pose, chain.entries[chain.cursor].after)
                            /\ target = chain.entries[chain.cursor].before
      [] kind = "redo"   -> /\ chain.cursor < Len(chain.entries)
                            /\ Near(pose, chain.entries[chain.cursor + 1].before)
                            /\ target = chain.entries[chain.cursor + 1].after

(* begin: what current.json holds while the actor is being moved.          *)
Opened(kind, target, state) ==
    [entries |-> IF kind = "record" THEN Extended ELSE chain.entries,
     cursor  |-> IF kind = "record" THEN Len(Extended) ELSE chain.cursor,
     pending |-> [kind |-> kind, source |-> pose, target |-> target, state |-> state]]

(* finish: the history advances once the pose has been observed.           *)
Finished(c) ==
    LET p == c.pending
    IN  [entries |-> IF p.kind = "record"
                     THEN Append(c.entries, [before |-> p.source, after |-> p.target])
                     ELSE c.entries,
         cursor  |-> IF p.kind = "undo" THEN c.cursor - 1 ELSE c.cursor + 1,
         pending |-> NoIntent]

(* apply_position_history: to where, how it ends, where the actor then is. *)
(*   settled    two snapshots show the target                              *)
(*   unsettled  they do not, or the world is gone: fail() notes it         *)
(*   cut        the bridge dies before or after the move, or fail() itself *)
(*              cannot be written                                          *)
(*   unsynced   current.json was replaced by finish() but its directory    *)
(*              could not be synced: the request fails, the entry stands   *)
Move(kind, target, end, seen) ==
    /\ moves < MaxMoves /\ moves' = moves + 1
    /\ Readable(chain) /\ chain.pending = NoIntent
    /\ Intended(kind, target)
    /\ archived' = IF SetAside(kind) THEN archived \cup {chain.entries} ELSE archived
    /\ pose' = seen
    /\ \/ /\ end \in {"settled", "unsynced"} /\ Near(seen, target)
          /\ chain' = Finished(Opened(kind, target, "attempting"))
          /\ outside' = FALSE
       \/ /\ end = "unsettled"
          /\ chain' = Opened(kind, target, "needs_attention")
          /\ UNCHANGED outside
       \/ /\ end = "cut" /\ (seen = pose \/ Near(seen, target))
          /\ chain' = Opened(kind, target, "attempting")
          /\ UNCHANGED outside

(* acknowledge: the operator has looked; the chain is set aside whole.     *)
AcknowledgeMove ==
    /\ moves < MaxMoves /\ moves' = moves + 1
    /\ Readable(chain) /\ chain.pending # NoIntent
    /\ archived' = archived \cup {chain.entries}
    /\ chain' = [entries |-> <<>>, cursor |-> 0, pending |-> NoIntent]
    /\ UNCHANGED <<pose, outside>>

(* A request without a review (update_actor), a scene being restored, or   *)
(* the simulator itself moves the actor past its history.                  *)
MovedOutside(p) ==
    /\ p # pose /\ pose' = p /\ outside' = TRUE
    /\ UNCHANGED <<chain, archived, moves>>

PositionNext ==
    \/ \E kind \in {"record", "undo", "redo"}, target, seen \in Poses,
          end \in {"settled", "unsettled", "cut", "unsynced"} :
          Move(kind, target, end, seen)
    \/ AcknowledgeMove
    \/ \E p \in Poses : MovedOutside(p)

-----------------------------------------------------------------------------
Entries == [before : Poses, after : Poses]

(* Type invariant of the position history.                                 *)
PositionTypeOK ==
    /\ pose \in Poses /\ outside \in BOOLEAN /\ moves \in 0 .. MaxMoves
    /\ chain.entries \in Seq(Entries)
    /\ chain.cursor \in 0 .. Len(chain.entries)
    /\ chain.pending = NoIntent
       \/ chain.pending \in [kind : {"record", "undo", "redo"}, source : Poses,
                             target : Poses, state : {"attempting", "needs_attention"}]

(* Whatever begin, finish, fail and acknowledge write in whatever order,   *)
(* read accepts it again: a chain it refuses could never be acknowledged   *)
(* either, and the actor would have no history for the rest of its life    *)
(* (transform_history.py:60-95).                                           *)
WrittenIsReadable == Readable(chain)

(* While nothing is pending and nothing else has moved the actor, it is    *)
(* where the history shows it.  Each confirmed step may be a tolerance off *)
(* the entry it was made for, and an entry a tolerance off its neighbour.  *)
ShownIsWhereItIs ==
    chain.pending = NoIntent /\ ~outside /\ chain.entries # <<>> =>
        LET shown == IF chain.cursor > 0 THEN chain.entries[chain.cursor].after
                     ELSE chain.entries[1].before
        IN  pose - shown \in -(2 * Tolerance) .. 2 * Tolerance

(* The inductive invariant of a position history.                          *)
PositionInv == PositionTypeOK /\ WrittenIsReadable /\ ShownIsWhereItIs

(* An entry leaves the current chain only into an archive, also when the   *)
(* bridge dies in between (begin and acknowledge archive before writing).  *)
NoMoveForgotten ==
    [][ LET kept == Len(chain.entries)
        IN  \/ chain.entries \in archived'
            \/ kept <= Len(chain'.entries) /\ SubSeq(chain'.entries, 1, kept) = chain.entries
      ]_positionVars

(* The history is a line of entries with a cursor.                         *)
Line == INSTANCE LinearHistory WITH entries <- chain.entries, cursor <- chain.cursor
PositionIsLine == Line!LineSpec
=============================================================================
