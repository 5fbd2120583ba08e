---------------------------- MODULE ReplayBuffer ----------------------------
(***************************************************************************)
(* replay_buffer: the latencies come from a recording, a list of addresses *)
(* and latencies per command and id and one for all ids.  Its threads are  *)
(* those of RateBuffer; the times per byte are never set.                  *)
(***************************************************************************)
EXTENDS RateBuffer

CONSTANT
  Recording   (* Recording[c][i + 1]: the entries <<addr, latency>> of id  *)
              (* i; Recording[c][0]: those for any id.                     *)

ASSUME RecordingAssumption ==
  Recording \in [Cmds -> [{0} \union {i + 1 : i \in Ids} ->
                           Seq(Nat \X (0 .. Horizon - 1))]]

VARIABLE left   (* rd_sequence and wr_sequence.                            *)

ReplayInit == left = Recording

\* find_and_push: the first entry of an address.
Find(s, a) == SelectInSeq(s, LAMBDA e : e[1] = a)

\* Mutant: the entry is not erased.
EraseMutant(c, i, k) == left
Erase(c, i, k) == [left EXCEPT ![c][i] = RemoveAt(@, k)]

\* transport: the list of the id first, then the one for all ids.
ReplayTransport(t) ==
  LET c == Cmd[t]
      own == Find(left[c][Id[t] + 1], Addr[t])
      all == Find(left[c][0], Addr[t])
  IN
  \/ /\ own > 0
     /\ Push(t, left[c][Id[t] + 1][own][2])
     /\ left' = Erase(c, Id[t] + 1, own)
  \/ /\ own = 0 /\ all > 0
     /\ Push(t, left[c][0][all][2])
     /\ left' = Erase(c, 0, all)
  \/ /\ own = 0 /\ all = 0
     /\ Push(t, 0)
     /\ UNCHANGED left

-----------------------------------------------------------------------------
(* What a recording promises, by counting: the n-th payload of an id and   *)
(* an address has the latency of the n-th entry of its id and address;     *)
(* those that find no such entry take, in their order, the entries of the  *)
(* address that are for all ids; what is left over has none.               *)

Entries(c, i, a) == SelectSeq(Recording[c][i], LAMBDA e : e[1] = a)

\* The calls before the k-th for the same list.
Before(k) == {j \in 1 .. k - 1 : /\ Cmd[order[j]] = Cmd[order[k]]
                                 /\ Addr[order[j]] = Addr[order[k]]}
SameId(k) == {j \in Before(k) : Id[order[j]] = Id[order[k]]}
OwnEntries(k) == LET t == order[k] IN Entries(Cmd[t], Id[t] + 1, Addr[t])
Overflows(k) == Cardinality(SameId(k)) >= Len(OwnEntries(k))

Expected(k) ==
  LET t == order[k]
      m == Cardinality({j \in Before(k) : Overflows(j)})
      e == Entries(Cmd[t], 0, Addr[t])
  IN  IF ~Overflows(k) THEN OwnEntries(k)[Cardinality(SameId(k)) + 1][2]
      ELSE IF m < Len(e) THEN e[m + 1][2] ELSE 0
=============================================================================
