---------------------------- MODULE MCRtspSession ----------------------------
(***************************************************************************)
(* TLC instances of RtspSession: one media session of two streams, and     *)
(* clients that name them in every way.                                    *)
(***************************************************************************)
EXTENDS RtspSession

Streams == [n \in Name |-> <<"video", "audio">>]

Seg(name) == [name |-> name]
Track(k)  == [track |-> k]

Request(type, path, client_port) == [type |-> type, path |-> path, client_port |-> client_port]

Live == Seg("live")

SetupPaths ==
    {<<>>, <<Live>>, <<Live, Seg("audio")>>, <<Live, Track(1)>>, <<Track(2)>>, <<Track(0)>>,
     <<Live, Seg("audio"), Track(2)>>, <<Seg("gone")>>}

AllInputs ==
    {Request(type, <<>>, None) : type \in {"OPTIONS", "GET_PARAMETER"}}
    \cup {Request("SETUP", path, "5000") : path \in SetupPaths}
    \cup {Request("SETUP", <<Live>>, port) : port \in {None, "0"}}
    \cup {Request(type, path, None) : type \in {"DESCRIBE", "PLAY", "PAUSE", "TEARDOWN"},
                                      path \in {<<>>, <<Live>>, <<Seg("gone")>>}}

\* Of two clients one sets up both streams, the other only the second.
FewInputs(setup) ==
    {Request("SETUP", setup, "5000")}
    \cup {Request(type, <<Live>>, None) : type \in {"PLAY", "PAUSE", "TEARDOWN"}}

\* One client that asks anything, any ports being taken; two clients that ask for less.
OneOrTwoClients ==
    {[asks |-> [s \in {"c"} |-> AllInputs], taken |-> ports] : ports \in SUBSET Port}
    \cup {[asks |-> [s \in {"c", "d"} |->
                        FewInputs(IF s = "c" THEN <<Live>> ELSE <<Live, Track(2)>>)],
           taken |-> {}]}
=============================================================================
