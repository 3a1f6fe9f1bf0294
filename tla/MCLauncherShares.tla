---- MODULE MCLauncherShares ----
EXTENDS LauncherShares
HostAndSeat == <<"host", "s1">>
SeatsOnly == <<"host", "s1", "s2">>
====
