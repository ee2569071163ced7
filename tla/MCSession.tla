----------------------------- MODULE MCSession -----------------------------
(* Instances of Session for TLC. *)
EXTENDS Session, TLC

\* What matters to the error count: commands, reporters and what fills the pool.
ErrorKinds == {"Handshake", "BadCommand", "Submit", "DeviceIdle", "Wait"}

\* One of each sort the session treats differently.  A OnewayHandshake is
\* refused like a second Handshake, a Ping, an Unknown and a BadWait are answered
\* at once like a Call, a Command or a Mute does nothing, and a TimedWait ends by itself
\* like the waits for idleness.
MainKinds == {"Handshake", "BadHandshake", "Call", "BadCommand", "Submit",
              "MuteSubmit", "DeviceIdle", "QueueIdle", "Wait"}
=============================================================================
