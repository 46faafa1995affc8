---------------------------- MODULE MCWalletRescan ----------------------------
(* Two RPC threads and two keys on a chain of five blocks.  k1 is paid in  *)
(* block 1, which cannot be read; k2 in block 3.  A dump records k2 as    *)
(* created at time 3, so its rescan starts past the unreadable block.     *)
EXTENDS WalletRescan

CONSTANTS c1, c2, k1, k2

MCTxAt == [k \in {k1, k2} |-> IF k = k1 THEN 1 ELSE 3]
MCDumpTime == [k \in {k1, k2} |-> IF k = k1 THEN 0 ELSE 3]

Req(k, priv, ts, valid) == <<k, priv, ts, valid>>

\* one key created at the time a scan cut at block 1 reaches (3); a
\* watch-only key created before it together with a private key created at
\* it, so a cut scan turns one result into an error and keeps the other
MCRequests ==
    { << Req(k2, TRUE, 3, TRUE) >>,
      << Req(k1, FALSE, 0, TRUE), Req(k2, TRUE, 3, TRUE) >> }

\* two dumps of both keys, with names holding the bytes at the boundaries
\* of the encoding: space, newline, '%', '#', digits, DEL, NUL, >= 128
MCFiles ==
    { (k1 :> <<97, 32, 37>>) @@ (k2 :> <<200, 10, 35>>),
      (k1 :> <<37, 50, 48>>) @@ (k2 :> <<127, 0, 255>>) }
=============================================================================
