------------------------------ MODULE MCLinks ------------------------------
(* What a session runs on, in parts that share nothing: the channels two     *)
(* devices open over a relay, the frames of a transport, the certificates a  *)
(* WebTransport node serves, and the native session over one connection.     *)
(* The parts that are not looked at stay in an initial state.                *)
EXTENDS MCRelayChannels, FrameStreams, CertificateRotation, NativeSession

VARIABLE part

linksVars == <<part, vars, streamVars, certVars, nativeVars>>

\* The browser's and the hub's sockets and the data channel go as the node's
\* WebSocket does.
MCTransport == {Tcp, Tls, ByteStream, NodeWebSocket}

LinksInit ==
    /\ part \in {"channels", "frames", "certificates", "native"}
    /\ Init /\ CertInit /\ NativeInit
    /\ StreamInit
    /\ (part # "frames" => transport = Tcp)

LinksNext ==
    \/ part = "channels" /\ Next /\ UNCHANGED <<part, streamVars, certVars, nativeVars>>
    \/ part = "frames" /\ StreamNext /\ UNCHANGED <<part, vars, certVars, nativeVars>>
    \/ part = "certificates" /\ CertNext /\ UNCHANGED <<part, vars, streamVars, nativeVars>>
    \/ part = "native" /\ NativeNext /\ UNCHANGED <<part, vars, streamVars, certVars>>

\* No fair action of the channels is enabled where they do not take part.
LinksSpec ==
    /\ LinksInit /\ [][LinksNext]_linksVars
    /\ \A d \in Device : WF_vars(Receive(d)) /\ WF_vars(Establish(d)) /\ WF_vars(SendsHello(d))

=============================================================================
