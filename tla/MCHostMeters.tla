---------------------------- MODULE MCHostMeters ----------------------------
(* Instances of HostMeters for TLC. *)
EXTENDS HostMeters

Field(id, kind, v) == [id |-> id, kind |-> kind, v |-> v]
Row(keys, val) == [keys |-> keys, val |-> val]

Hostname == Field("hostname", "value", <<"STR", "web">>)
Load(x) == Field("load", "value", <<"FRAC", x>>)
User(name, idle) ==
    Row(<<"user", "idle">>,
        [user |-> <<"STR", name>>, idle |-> <<"INT", idle>>])
Nobody == Field("who", "empty", 0)
Who(users) == Field("who", "dictarray", users)
Address == Field("link", "dict", Row(<<"ip">>, [ip |-> <<"STR", "ip">>]))
Disks(list) == Field("disks", "array", list)
NoNet == Field("net", "empty", 0)
Net == Field("net", "dict",
             Row(<<"in", "out">>, [in |-> <<"INT", 2>>, out |-> <<"INT", 0>>]))
Extra(id) == Field(id, "value", <<"INT", 1>>)
Unfit == Field("muchtoolongname", "value", <<"INT", 1>>)

(* Users that come and go. *)
Shared ==
    {<<Hostname, Load(0), Nobody>>,
     <<Hostname, Load(3), Who(<<User("ann", 0), User("bob", 2)>>)>>,
     <<Hostname, Load(0), Who(<<User("bob", 0)>>)>>}

(* A list longer than a meter, a group that may be empty, probes that are  *)
(* slower than others.                                                     *)
Grown ==
    {<<Hostname, NoNet>>,
     <<Hostname, Disks(<<<<"INT", 1>>, <<"INT", 2>>, <<"INT", 1>>>>), Net,
       Unfit, Extra("lost")>>}

(* An address to ping, that is not sent every time. *)
Pinged == {<<Hostname, Address>>, <<Load(1)>>}

(* A load that is sent now and then. *)
Busy == {<<Load(1)>>, <<Load(2)>>}

(* More meters than a host may have. *)
Crowded ==
    {<<Hostname, Load(3), Extra("a"), Extra("b"), Extra("c")>>,
     <<Hostname, Net, Extra("d"), Extra("e")>>}

HigherLimit ==
    {[name |-> <<"load">>, type |-> "FRAC", level |-> "CRIT", val |-> 5]}

Summary(id, meter, type, func, match) ==
    [id |-> id, meter |-> meter, type |-> type, func |-> func,
     match |-> match]
MCConf ==
    <<Summary("load", <<"load">>, "FRAC", "avg", Missing),
      Summary("stale", <<"status">>, "STR", "count", "STALE")>>

(* Totals of a tenant's own; what comes after the incomplete definition is *)
(* lost, the configuration's too.                                          *)
Own == <<Summary("whole", <<"load">>, "INT", "total", Missing),
         Summary("odd", <<"load">>, "INT", "median", Missing),
         Summary("broken", <<"status">>, "STR", "count", Missing)>>

(* Two other hosts of the tenant. *)
Other(load, status) ==
    SetMeter(SetMeter(host_alloc, <<"load">>, "FRAC", 0, <<load>>),
             <<"status">>, "STR", 0, <<status>>).meters
TwoOthers == <<Other(3, "STALE"), Other(2, "OK")>>

AnAgent(reports, metadata, summaries, others) ==
    [reports |-> reports, metadata |-> metadata, summaries |-> summaries,
     others |-> others]
MCWorlds ==
    {AnAgent(Shared, {HigherLimit}, {<<>>}, <<>>),
     AnAgent(Grown, {}, {<<>>}, <<>>),
     AnAgent(Pinged, {}, {<<>>}, <<>>),
     AnAgent(Busy, {}, {<<>>, Own}, TwoOthers),
     AnAgent(Crowded, {}, {Own}, <<>>)}

Watch(name, cmp, type, val, level) ==
    [name |-> name, cmp |-> cmp, type |-> type, val |-> val,
     level |-> level]
MCWatchers ==
    {Watch(<<"load">>, "gt", "FRAC", 1, "WARN"),
     Watch(<<"load">>, "gt", "FRAC", 2, "CRIT"),
     Watch(<<"who", "idle">>, "gt", "INT", 1, "ALERT"),
     Watch(<<"disks">>, "gt", "INT", 1, "WARN")}

(* The list of Nagios checks that warn, which the agent sends with every   *)
(* packet, empty or not.                                                   *)
Checked ==
    {<<Hostname, Field("chkwarn", "empty", 0)>>,
     <<Hostname, Field("chkwarn", "array", <<<<"STR", "disk">>>>)>>}
MCNagios == {AnAgent(Checked, {}, {<<>>}, <<>>)}
=============================================================================
