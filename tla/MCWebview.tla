----------------------------- MODULE MCWebview ------------------------------
(* Webview over one contract with one function, in a directory inside        *)
(* another.                                                                  *)
EXTENDS Webview

CONSTANTS vault, deposit, src, lib

MCIds == {vault, deposit}
MCKind == vault :> "Contract" @@ deposit :> "Function"
MCInside == {<<lib, src>>}

MCOrder == <<src, lib>>

\* The contract lives in the inner directory.
MCDrawnFor(req) ==
    CASE req.view = "protocol" ->
            {src} \cup (IF src \in Range(OpenFor(req)) THEN {lib} ELSE {})
                  \cup (IF lib \in Range(OpenFor(req)) THEN {vault} ELSE {})
      [] req.view = "call" -> {deposit} \cup (IF req.hops > 0 THEN {vault} ELSE {})
      [] OTHER -> MCIds
=============================================================================
