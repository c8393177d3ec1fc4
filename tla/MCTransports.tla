---------------------------- MODULE MCTransports ----------------------------
(***************************************************************************)
(* Transports for TLC: streams of up to three items on one TCP connection, *)
(* lists of addresses for the senders, and two senders that meet on one    *)
(* connection.                                                             *)
(***************************************************************************)
EXTENDS Transports

CONSTANTS near, far     \* a peer the UDP socket can reach, and one it cannot

\* A message whose content looks like the end of headers and a keep-alive,
\* and one without content.
Tricky == Message(<<CR, LF>>)
Bare == Message(<<>>)

SmallStreams == {
    <<KeepaliveResponse, KeepaliveRequest, Bare>>,
    <<Tricky, Bare>>,
    <<Unframed>> }

To(p, protocol) == [addr |-> p, proto |-> protocol]

SmallRoutes == {
    <<To(near, "udp"), To(far, "wss")>>,
    <<To(far, "udp"), To(far, "tcp")>> }
=============================================================================
