---------------------------- MODULE MCDBVersions ----------------------------
(***************************************************************************)
(* Instances of DBVersions: three levels, limits of one or two entries.    *)
(***************************************************************************)
EXTENDS DBVersions

Setting(size, snap, man, fail, writes, max) ==
  [max_file_size |-> size, snapshots |-> snap, manual |-> man,
   failures |-> fail, writes |-> writes, max_writes |-> max]

\* Two keys, put and deleted.
TwoKeys == {k \in Keys : \E d \in Keys : k < d} \X ValueTypes

\* Four puts of any keys, into small or large outputs: a file may span a key
\* that a flush then writes.  Puts and deletions of two keys: a client that
\* takes snapshots, one that compacts by hand, and one that meets failing I/O.
MCSettings ==
  {Setting(size, FALSE, FALSE, FALSE, Keys \X {"value"}, 4) : size \in {1, 9}}
  \cup {Setting(9, TRUE, FALSE, FALSE, TwoKeys, 3),
        Setting(1, FALSE, TRUE, FALSE, TwoKeys, 3),
        Setting(1, FALSE, FALSE, TRUE, TwoKeys, 3)}

\* Small outputs and snapshots.
MCSplitSettings ==
  {Setting(1, TRUE, FALSE, FALSE, Keys \X ValueTypes, MaxSequence)}

\* CompactRange(NULL, NULL).
MCRanges == {r \in Keys \X Keys : \A k \in Keys : r[1] <= k /\ k <= r[2]}

MCLimits == [l \in 1..(kNumLevels - 1) |-> 2]
MCSmallLimits == [l \in 1..(kNumLevels - 1) |-> 1]
=============================================================================
