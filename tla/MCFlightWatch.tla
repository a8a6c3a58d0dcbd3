--------------------------- MODULE MCFlightWatch ---------------------------
(* TLC instances of FlightWatch.                                            *)
EXTENDS FlightWatch

(* a watch for the day; a bellwether whose tail has just landed; a watch     *)
(* for the day of such a tail                                                *)
Day        == [transient |-> Entries, sameTail |-> {}]
Bellwether == [transient |-> {}, sameTail |-> Entries]
Inbound    == [transient |-> Entries, sameTail |-> Entries]

DayAndBellwether == {Day, Bellwether}
BellwetherOnly   == {Bellwether}
InboundOnly      == {Inbound}

(* surface radar covers the destination and not the origin, or both *)
RadarAtDestination == [e \in Entries |-> [origin |-> FALSE, destination |-> TRUE]]
RadarAtBoth == [e \in Entries |-> [origin |-> TRUE, destination |-> TRUE]]
=============================================================================
