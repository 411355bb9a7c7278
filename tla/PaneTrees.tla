----------------------------- MODULE PaneTrees -----------------------------
(***************************************************************************)
(* The split tree of a tab, twice: as the GUI edits it (pane-tree.ts) and  *)
(* as the agent edits its document (workspace.rs).                         *)
(*                                                                         *)
(* A leaf has its id, the directory and the agent of its shell, and the    *)
(* title the shell last set.  The environment of an agent (env) is known   *)
(* to one GUI only and never sent.  A size is 0 for an even share and 1    *)
(* for one that the user dragged; what the shares are plays no part.       *)
(***************************************************************************)
EXTENDS Naturals, Sequences, SequencesExt, TLC

CONSTANT None

makeLeaf(id, cwd) ==
  [type |-> "leaf", id |-> id, cwd |-> cwd, agent |-> None, env |-> FALSE,
   title |-> None]

Even(n) == [i \in 1 .. n |-> 0]

makeSplit(id, direction, children) ==
  [type |-> "split", id |-> id, direction |-> direction, children |-> children,
   sizes |-> Even(Len(children))]

RECURSIVE collectLeaves(_)
collectLeaves(node) ==
  IF node.type = "leaf" THEN <<node>>
  ELSE FlattenSeq([i \in DOMAIN node.children |-> collectLeaves(node.children[i])])

collectLeafIds(node) == [i \in DOMAIN collectLeaves(node) |-> collectLeaves(node)[i].id]

LeafIds(node) == ToSet(collectLeafIds(node))

findLeaf(node, id) ==
  LET at == SelectInSeq(collectLeaves(node), LAMBDA l : l.id = id) IN
  IF at = 0 THEN None ELSE collectLeaves(node)[at]

\* The first child that is the leaf `id` itself; 0 if there is none.
ChildLeaf(node, id) ==
  SelectInSeq(node.children, LAMBDA c : c.type = "leaf" /\ c.id = id)

\* Faulty: the new child gets no size.
InsertedUnsized(node, index, leaf) ==
  [node EXCEPT !.children = InsertAt(@, index + 1, leaf)]

Inserted(node, index, leaf) ==
  LET children == InsertAt(node.children, index + 1, leaf) IN
  [node EXCEPT !.children = children, !.sizes = Even(Len(children))]

----------------------------------------------------------------------------
(* pane-tree.ts                                                            *)

\* `recur` of splitPane: every node is visited.
RECURSIVE splitPane(_, _, _, _, _)
splitPane(node, target, direction, splitId, leaf) ==
  CASE node.type = "leaf" /\ node.id = target -> makeSplit(splitId, direction, <<node, leaf>>)
    [] node.type = "leaf" /\ node.id # target -> node
    [] OTHER ->
         IF node.direction = direction /\ ChildLeaf(node, target) # 0
         THEN Inserted(node, ChildLeaf(node, target), leaf)
         ELSE [node EXCEPT !.children =
                 [i \in DOMAIN @ |-> splitPane(@[i], target, direction, splitId, leaf)]]

\* `recur` of removePane: every split is laid out evenly again, one with a
\* single child left is replaced by it.
RECURSIVE removePane(_, _)
removePane(node, target) ==
  IF node.type = "leaf" THEN IF node.id = target THEN None ELSE node
  ELSE LET kept == SelectSeq([i \in DOMAIN node.children |-> removePane(node.children[i], target)],
                             LAMBDA c : c # None)
       IN CASE Len(kept) = 0 -> None
            [] Len(kept) = 1 -> kept[1]
            [] OTHER -> [node EXCEPT !.children = kept, !.sizes = Even(Len(kept))]

\* nextActiveId: the leaf before the removed one; the first one remaining if it
\* was the first, or was not there.
nextActive(root, target) ==
  LET order == collectLeafIds(root)
      rest == SelectSeq(order, LAMBDA id : id # target)
      removed == SelectInSeq(order, LAMBDA id : id = target)
  IN IF rest = <<>> THEN None ELSE rest[IF removed > 1 THEN removed - 1 ELSE 1]

\* setLeafCwd, setLeafAgent and update_leaf: these fields of the leaf `id`.
RECURSIVE setLeaf(_, _, _)
setLeaf(node, id, fields) ==
  IF node.type = "leaf" THEN IF node.id = id THEN fields @@ node ELSE node
  ELSE [node EXCEPT !.children = [i \in DOMAIN @ |-> setLeaf(@[i], id, fields)]]

RECURSIVE setSizesAt(_, _, _)
setSizesAt(node, splitId, sizes) ==
  CASE node.type = "leaf" -> node
    [] node.type = "split" /\ node.id = splitId -> [node EXCEPT !.sizes = sizes]
    [] OTHER -> [node EXCEPT !.children = [i \in DOMAIN @ |-> setSizesAt(@[i], splitId, sizes)]]

RECURSIVE splitNodes(_)
splitNodes(node) ==
  IF node.type = "leaf" THEN {}
  ELSE {node} \cup UNION {splitNodes(node.children[i]) : i \in DOMAIN node.children}

----------------------------------------------------------------------------
(* workspace.rs                                                            *)

\* The tree after the split, or None if the target is not in it: a split that
\* runs the same way takes the leaf in, else its children are tried in order.
RECURSIVE split_tree(_, _, _, _, _)
split_tree(tree, target, direction, splitId, leaf) ==
  IF tree.type = "leaf"
  THEN IF tree.id = target THEN makeSplit(splitId, direction, <<tree, leaf>>) ELSE None
  ELSE LET here == ChildLeaf(tree, target)
           done == [i \in DOMAIN tree.children |->
                      split_tree(tree.children[i], target, direction, splitId, leaf)]
           first == SelectInSeq(done, LAMBDA t : t # None)
       IN CASE tree.direction = direction /\ here # 0 -> Inserted(tree, here, leaf)
            [] ~(tree.direction = direction /\ here # 0) /\ first # 0 ->
                 [tree EXCEPT !.children[first] = done[first]]
            [] OTHER -> None

\* remove_pane: the children that remain, None if there is none.
RECURSIVE remove_pane(_, _)
remove_pane(tree, target) ==
  IF tree.type = "leaf" THEN IF tree.id = target THEN None ELSE tree
  ELSE LET kept == SelectSeq([i \in DOMAIN tree.children |-> remove_pane(tree.children[i], target)],
                             LAMBDA c : c # None)
       IN CASE Len(kept) = 0 -> None
            [] Len(kept) = 1 -> kept[1]
            [] OTHER -> makeSplit(tree.id, tree.direction, kept)

\* validate_tree, on the ids and the shape.
RECURSIVE nodeIds(_)
nodeIds(tree) ==
  IF tree.type = "leaf" THEN <<tree.id>>
  ELSE <<tree.id>> \o FlattenSeq([i \in DOMAIN tree.children |-> nodeIds(tree.children[i])])

validate_tree(tree) ==
  \A node \in splitNodes(tree) :
    Len(node.children) >= 2 /\ Len(node.sizes) = Len(node.children)

----------------------------------------------------------------------------
(* workspace-protocol.ts and workspace-store.ts                            *)

RECURSIVE stripAgentSecrets(_)
stripAgentSecrets(tree) ==
  IF tree.type = "leaf" THEN [tree EXCEPT !.env = FALSE]
  ELSE [tree EXCEPT !.children = [i \in DOMAIN @ |-> stripAgentSecrets(@[i])]]

\* What this window keeps of its own tree when the agent's is projected: the
\* environment of an agent that is still the same, and the sizes of a split whose
\* children are the same.  A child is looked up under the same parent only.
RECURSIVE mergeAgentPaneTree(_, _)
mergeAgentPaneTree(previous, shared) ==
  IF shared.type = "leaf"
  THEN [shared EXCEPT !.env =
          IF previous = None THEN FALSE
          ELSE /\ previous.type = "leaf" /\ previous.id = shared.id
               /\ previous.agent = shared.agent /\ shared.agent # None /\ previous.env]
  ELSE LET before == IF previous = None THEN <<>>
                     ELSE IF previous.type = "split" THEN previous.children ELSE <<>>
           ids(kids) == [i \in DOMAIN kids |-> kids[i].id]
           of(id) == SelectInSeq(before, LAMBDA c : c.id = id)
           keep == /\ before # <<>> /\ previous.id = shared.id
                   /\ ids(before) = ids(shared.children)
                   /\ Len(previous.sizes) = Len(shared.sizes)
       IN [shared EXCEPT
             !.sizes = IF keep THEN previous.sizes ELSE shared.sizes,
             !.children = [i \in DOMAIN @ |->
                mergeAgentPaneTree(IF of(@[i].id) = 0 THEN None ELSE before[of(@[i].id)], @[i])]]
=============================================================================
