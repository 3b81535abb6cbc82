-------------------------- MODULE MCOutboundEmail --------------------------
(* Small instances of OutboundEmail for TLC.                               *)
EXTENDS OutboundEmail

\* One dedupe key per deferral bucket and per window.
SendKeys == Buckets \cup {WindowKey(d) : d \in Windows}
=============================================================================
