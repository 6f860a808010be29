-------------------------------- MODULE MCServer --------------------------------
(* Server on small instances.                                                *)
EXTENDS Server

Request(i, m) == [id |-> i, kind |-> "request", method |-> m]
Event(i, m) == [id |-> i, kind |-> "event", method |-> m]
Malformed(i) == [id |-> i, kind |-> "malformed", method |-> "none"]
Empty(i) == [id |-> i, kind |-> "empty", method |-> "none"]

\* Two requests to a registered method, and one frame among them: an event whose
\* handler is registered late, a malformed frame or an empty one.
MixedFrames ==
    {Request(1, "m"), Request(2, "m"), Event(3, "late"), Malformed(3), Empty(3)}

\* Two echo requests.
EchoFrames == {Request(1, "echo"), Request(2, "echo")}

\* A request to a method nobody registered, and one to a registered method.
UnknownFrames == {Request(1, "m"), Request(2, "x")}

Handlers == {<<"request", "m">>, <<"request", "echo">>}
LateHandlers == {<<"event", "late">>}
NoHandlers == {}
NoMethods == {}
EchoMethods == {"echo"}
================================================================================
