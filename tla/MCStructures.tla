---------------------------- MODULE MCStructures ----------------------------
(***************************************************************************)
(* The sequential parts of the library, checked in one run: the memory     *)
(* pool, the red-black tree, the lists of messages, the functions on texts *)
(* and the stream cipher.  They share nothing: one of them moves only      *)
(* while the others are as they were made, so that the states add up       *)
(* instead of multiplying.                                                 *)
(***************************************************************************)
EXTENDS MemPool, RbTree, MsgList, Texts, StreamCipher, Bitwise, TLC

FirstKey == <<1>>

Init ==
    /\ PoolInit /\ TreeInit /\ MsgInit /\ TextInit
    /\ CipherInit /\ encrypting = WithKey(FirstKey)

PoolUntouched ==
    /\ Live = {} /\ limit = 10 /\ past.gcs = 0 /\ past.large = 0
    /\ \A t \in Threads : large[t] = Idle
TreeUntouched == registered = {}
MsgUntouched == MsgInit
TextUntouched == shown.by = "nobody"
CipherUntouched == plain = <<>> /\ encrypting = WithKey(FirstKey)

PoolMoves ==
    /\ TreeUntouched /\ MsgUntouched /\ TextUntouched /\ CipherUntouched
    /\ PoolNext
    /\ UNCHANGED <<treeVars, msgVars, shown, cipherVars>>
TreeMoves ==
    /\ PoolUntouched /\ MsgUntouched /\ TextUntouched /\ CipherUntouched
    /\ TreeNext
    /\ UNCHANGED <<poolVars, msgVars, shown, cipherVars>>
MsgMoves ==
    /\ PoolUntouched /\ TreeUntouched /\ TextUntouched /\ CipherUntouched
    /\ MsgNext
    /\ UNCHANGED <<poolVars, treeVars, shown, cipherVars>>
TextMoves ==
    /\ PoolUntouched /\ TreeUntouched /\ MsgUntouched /\ CipherUntouched
    /\ TextNext
    /\ UNCHANGED <<poolVars, treeVars, msgVars, cipherVars>>
CipherMoves ==
    /\ PoolUntouched /\ TreeUntouched /\ MsgUntouched /\ TextUntouched
    /\ CipherNext
    /\ UNCHANGED <<poolVars, treeVars, msgVars, shown>>

Next == PoolMoves \/ TreeMoves \/ MsgMoves \/ TextMoves \/ CipherMoves

Spec == Init /\ [][Next]_<<poolVars, treeVars, msgVars, shown, cipherVars>>

(* A caller holds at most one of the small pieces and five of the large:   *)
(* enough for three blocks with room in the list of the second class.      *)
HeldAtOnce == [c \in Classes |-> IF c = 0 THEN 1 ELSE 5]

(* Lines and commands over few characters, each of which the code treats   *)
(* differently; files of one long line or of two short ones.               *)
TextsUpTo(n, chars) == UNION {[1..k -> chars] : k \in 0..n}
LineChars == {"#", "=", " ", "k"}
SomeFiles ==
    {<<line>> : line \in TextsUpTo(5, LineChars)}
    \union {<<l, m>> : l \in TextsUpTo(3, LineChars), m \in TextsUpTo(3, LineChars)}
SomeCommands == TextsUpTo(6, {" ", "k"})
SomeNumbers == {0, 7, 9, 10, 99, 100, 101, 255, 1000, -1, -10, -128}
SomeBytes == TextsUpTo(4, {0, 3, 15, 60, 195, 255})
XorOfBits(a, b) == a ^^ b
SomeKeys == {FirstKey, <<3, 2>>, <<0, 1, 2, 2, 1>>}

Alike == Permutations(Blocks)
=============================================================================
