------------------------------- MODULE MCPool -------------------------------
(* Small instances of Pool: the host, a seat or two, and a watched library. *)
EXTENDS Pool
HostAndSeat  == <<"host", "s1">>
JustSeat == <<"s1">>
HostAndSeats == <<"host", "s1", "s2">>
Nobody == <<>>
Second == <<"second">>
=============================================================================
