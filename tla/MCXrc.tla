--------------------------------- MODULE MCXrc ---------------------------------
EXTENDS Xrc

(* A token, an NFT that knows most of XRC20, and a wallet. *)
MCImplements ==
  [c \in Contracts |->
     CASE c = "token"  -> {"totalSupply", "balanceOf", "allowance", "approve"}
       [] c = "nft"    -> {"totalSupply", "balanceOf", "approve", "ownerOf"}
       [] c = "wallet" -> {"balanceOf"}]

L(contractOf, shape, from, to) ==
  [contract |-> contractOf, shape |-> shape, from |-> from, to |-> to]

MCLogs ==
  {L("token", "indexed", "a", "b"), L("token", "plain", "b", "a"), L("token", "odd", "a", "a"),
   L("nft", "nft", "a", "b"), L("nft", "indexed", "b", "a"), L("wallet", "indexed", "a", "b"),
   L("token", "nft", "b", "b")}

MCPairs ==
  {<<L("token", "indexed", "a", "b"), L("nft", "nft", "a", "b")>>,
   <<L("token", "odd", "a", "a"), L("token", "plain", "b", "a")>>,
   <<L("nft", "indexed", "b", "a"), L("token", "indexed", "a", "b")>>,
   <<L("token", "odd", "a", "a"), L("wallet", "indexed", "a", "b")>>}

(* A log on its own, or two in one receipt or in two. *)
MCBlocks ==
  {<<<<l>>>> : l \in MCLogs} \cup {<<p>> : p \in MCPairs} \cup {<<<<p[1]>>, <<p[2]>>>> : p \in MCPairs}
================================================================================
