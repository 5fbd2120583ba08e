------------------------- MODULE MCResponseBuffers -------------------------
(* The instance of ResponseBuffers that TLC checks. *)
EXTENDS ResponseBuffers

MCTx == 1 .. 6
MCCmd == <<"rd", "rd", "wr", "rd", "wr", "rd">>
MCIds == 0 .. 2
MCId == <<0, 0, 0, 1, 1, 2>>
MCAddr == <<8, 8, 8, 8, 8, 8>>
MCBytes == <<1, 1, 2, 1, 1, 1>>
MCQos == <<1, 0, 0, 1, 1, 0>>

\* A byte takes 3/4 of a clock period with a total limit, else 7/4 or 5/4.
MCLimits == {NoLimit, [total |-> 3, rd |-> 7, wr |-> 5],
             [total |-> 0, rd |-> 7, wr |-> 5]}

\* An entry for reads of id 0 between entries for another address, three for
\* any id, one for writes of id 1.
MCRecording ==
  [rd |-> [i \in 0 .. 3 |->
      CASE i = 0 -> <<<<9, 1>>, <<8, 2>>, <<8, 0>>>>
        [] i = 1 -> <<<<8, 1>>, <<9, 2>>>>
        [] OTHER -> << >>],
   wr |-> [i \in 0 .. 3 |-> IF i = 2 THEN <<<<8, 2>>>> ELSE << >>]]

MCPriorities == [qos : BOOLEAN, latency : BOOLEAN]

MCCalls ==
  [rate    |-> {<<1, 2, 4, 3>>, <<3, 1, 5>>},
   replay  |-> {<<1, 2, 4, 6>>, <<6, 1, 5, 2>>, <<3, 5, 4, 1>>},
   reorder |-> {<<1, 2, 4, 3>>, <<6, 1, 4, 5>>}]
=============================================================================
