--------------------------------- MODULE MCPackets ---------------------------------
(***************************************************************************)
(* The exchange of packets; and, while no packet was exchanged, an           *)
(* application that uses message objects of its own.                         *)
(***************************************************************************)
EXTENDS Packets, Messages, TLC

Cut(t) == [t EXCEPT !.whole = FALSE]

T(tag, val) == Token(tag, val)

MCStrings == {<<>>, <<65, 48>>}

(* The fields of all classes, fields of no class, and tokens that were cut. *)
MCStreams ==
  {<<T(18, <<65, 48>>), T(8, 2)>>, <<T(26, <<130>>)>>, <<T(24, 0)>>,
   <<T(10, <<65, 48>>), T(16, 130)>>, <<T(40, 130), T(0, 0), T(8, 1)>>,
   <<T(8, 0), Cut(T(18, <<65>>))>>, <<T(9, 0), Cut(T(8, 1))>>, <<Cut(T(26, <<130>>))>>,
   <<Cut(T(10, <<65>>)), T(8, 1)>>, <<Cut(T(16, 1))>>, <<T(12, 1), T(8, 1)>>, <<T(14, 1), T(8, 1)>>,
   <<T(43, 2), T(8, 1)>>, <<T(8, 1), Cut(T(43, 2))>>}

Arrival(header) == [fits |-> TRUE, header |-> header, data |-> <<>>, stray |-> 48]

MCArrivals ==
  {Arrival(<<T(8, 1), T(18, KeyA0)>>), Arrival(<<T(8, 1), T(18, AppKey)>>),
   Arrival(<<T(18, AppKey)>>), Arrival(<<T(8, 1), T(18, <<90, 90>>)>>),
   Arrival(<<T(18, AppKey), T(26, <<1>>)>>), Arrival(<<T(8, 1), Cut(T(18, <<65>>))>>),
   [Arrival(<<T(8, 1), Cut(T(18, <<65>>))>>) EXCEPT !.stray = 255],
   [Arrival(<<T(8, 1), T(18, KeyA0)>>) EXCEPT !.fits = FALSE]}

ConnSymmetry == Permutations(Conns)

(* Nothing depends on the call that was just made, and the properties about it *)
(* are about steps: all steps are checked, to whatever state.                  *)
WithoutHistory ==
  <<connVars, writes, syncProcess, kept, ended, waiting, disturbed, class, object>>

AtRest == ~ended /\ errorMode = 1 /\ cid = [c \in Conns |-> 0]

MCInit == Init /\ MsgInit

MCNext ==
  \/ Next /\ AsNew /\ UNCHANGED <<class, object>>
  \/ AtRest /\ MsgNext /\ UNCHANGED pktVars

MCSpec == MCInit /\ [][MCNext]_<<pktVars, class, object>>
====================================================================================
