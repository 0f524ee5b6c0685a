---------------------------- MODULE MCSessionWriter ----------------------------
EXTENDS SessionWriter

\* restore-session/endpoint.ts: "The pre-I/O recovery marker must never strand a saved
\* session: keep its original thread and inactive state available for a later Open"
RecoveryNeverStrands == ~Busy => session.state # "recovering"
================================================================================
