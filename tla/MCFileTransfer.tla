--------------------------- MODULE MCFileTransfer ---------------------------
(***************************************************************************)
(* Files and mishaps for the model-checking run of FileTransfer.           *)
(***************************************************************************)
EXTENDS FileTransfer

Two == 1 .. 2

\* A file of two chunks and one of one chunk share the data channel; timeouts,
\* users who cancel, and any other kind of mishap.
Shared ==
    [chunks : {<<2, 1>>},
     mishap : {{"timeout", "cancel", kind} : kind \in AnyMishap} \cup
              {{"timeout", "stop", kind} : kind \in {"workError", "queueFull"}} \cup
              {{"timeout", "outage", "recover"}}]

\* The second file is empty: it is complete without data.
LastEmpty ==
    [chunks : {<<1, 0>>},
     mishap : {AnyMishap \ {"reject", "cancel", "change"}}]

Settings == Shared \cup LastEmpty
=============================================================================
