---------------------------- MODULE MCHostsFile ----------------------------
(* Bytes of the real width; few addresses, chosen so that some begin others. *)
EXTENDS HostsFile

\* localhost, and 110.0.0.25 with the name notnode1.
OldHosts == << Line(ByteSize, NoPrefix, 0),
               [Line(ByteSize + 1, NoPrefix, 1) EXCEPT !.mentions = {2, 25}, !.names = {<<"node", 1>>}] >>

\* node1 is in a line of mynode1, but mynode1 is not in one of node1.
OwnEndings == {<<"node", "mynode">>}

\* A range up to the last end SplitIpv4 can leave, one that is empty, and lists
\* that take and give back its addresses.
FewRanges  == {<<253, 254>>, <<254, 253>>}
FewLists   == {<<254>>, <<25, 253>>}

LastRange  == {<<254, 255>>}
=============================================================================
