---------------------------- MODULE RenderGraph -----------------------------
(***************************************************************************)
(* LDCore/RenderGraph/Lib/RGraph.cpp: a frame declares components, images, *)
(* passes and how the passes use the images; the graph derives an order of *)
(* the passes from that and records them, creating the physical images on  *)
(* the way. The images (sStorages) outlive the frame.                      *)
(*                                                                         *)
(* Declarations are one step per call. The sort is one step per visit,     *)
(* because it walks hash sets and hash maps, whose order is arbitrary.     *)
(* Multi-sampled twins of the images, formats and samplers are left out.   *)
(***************************************************************************)
EXTENDS Integers, FiniteSets, Sequences, SequencesExt

CONSTANTS
    Components, Passes, Images, Windows, Extents,
    Owner,           \* the component of each pass
    Home,            \* the component of each image
    ComputePasses,
    NotSorting

ASSUME RenderGraphConstants ==
    /\ Owner \in [Passes -> Components]
    /\ ComputePasses \subseteq Passes
    /\ IsFiniteSet(Passes) /\ IsFiniteSet(Components)
    /\ NotSorting \notin Components

VARIABLES
    graphState,    \* of the graph of this frame, "none" between two frames
    added,         \* when each component was added, 0 if it was not
    declared,      \* the same for the passes: gives passOrder of each component
    images,        \* what create_image was given, for the images of this frame
    usage,         \* RGraphImageObj::usage
    used,          \* the attachments, sampled and storage images of each pass
    imageUsages,   \* RComponentPassObj::imageUsages
    edges,         \* RComponentPassObj::edges, as pairs
    imageRefs,     \* RComponentObj::imageRefs
    blitSrc,       \* RGraphSwapchain::blitSrc of the windows that are connected
    visited, stack, sortComp, passOrder,   \* the sort
    recorded,      \* what was recorded: pass, its images and their handles
    storage,       \* sStorages
    forward        \* every image so far was connected to a component added later

passVars == <<used, imageUsages, edges>>
linkVars == <<imageRefs, blitSrc, forward>>
declVars == <<added, declared, images, usage, passVars, linkVars>>
sortVars == <<visited, stack, sortComp, passOrder>>
lateVars == <<sortVars, recorded, storage>>
graphVars == <<graphState, declVars, sortVars, recorded, storage>>

AttachmentUsages == {"COLOR", "DEPTH"}
Nothing == [i \in {} |-> "COLOR"]
NoStorage == [handle |-> 0, usage |-> {}, extent |-> 0, lastLayout |-> "UNDEFINED"]

With(f, x, v) == [y \in DOMAIN f \union {x} |-> IF y = x THEN v ELSE f[y]]

Latest(f) == Cardinality({x \in DOMAIN f : f[x] # 0})
Exists(p) == declared[p] # 0
PassesOf(c) == {p \in Passes : Owner[p] = c /\ Exists(p)}
UsersOf(p, u) == {i \in DOMAIN used[p] : used[p][i] \in u}

\* RGraph::create begins with an empty graph, and RGraph::destroy leaves one.
GraphInit ==
    /\ added = [c \in Components |-> 0]
    /\ declared = [p \in Passes |-> 0]
    /\ images = Nothing
    /\ usage = [i \in Images |-> {}]
    /\ used = [p \in Passes |-> Nothing]
    /\ imageUsages = [p \in Passes |-> Nothing]
    /\ edges = {}
    /\ imageRefs = Nothing
    /\ blitSrc = Nothing
    /\ visited = {}
    /\ stack = <<>>
    /\ sortComp = NotSorting
    /\ passOrder = <<>>
    /\ recorded = <<>>
    /\ forward = TRUE
    /\ graphState = "none"
    /\ storage = [i \in Images |-> NoStorage]
-----------------------------------------------------------------------------
(* Declarations                                                            *)

Create ==
    /\ graphState = "none"
    /\ graphState' = "CREATED"
    /\ UNCHANGED <<declVars, lateVars>>

AddComponent(c) ==
    /\ graphState = "CREATED"
    /\ added[c] = 0
    /\ added' = [added EXCEPT ![c] = Latest(added) + 1]
    /\ UNCHANGED <<graphState, declared, images, usage, passVars, linkVars, lateVars>>

AddImage(i, type, extent) ==
    /\ graphState = "CREATED"
    /\ added[Home[i]] # 0
    /\ i \notin DOMAIN images
    /\ images' = With(images, i, [type |-> type, extent |-> extent])
    /\ UNCHANGED <<graphState, added, declared, usage, passVars, linkVars, lateVars>>

AddPass(p) ==
    /\ graphState = "CREATED"
    /\ added[Owner[p]] # 0
    /\ ~Exists(p)
    /\ declared' = [declared EXCEPT ![p] = Latest(declared) + 1]
    /\ UNCHANGED <<graphState, added, images, usage, passVars, linkVars, lateVars>>

\* Mutant: reading an image as a storage image depends on nothing.
has_image_dependencySampledOnly(src, dst) ==
    <<src, dst>> \in {<<"COLOR", "SAMPLED">>, <<"SAMPLED", "COLOR">>, <<"COLOR", "COLOR">>}

\* Two uses of one image that must stay in their order.
has_image_dependency(src, dst) ==
    <<src, dst>> \in {<<"COLOR", "SAMPLED">>, <<"COLOR", "STORAGE">>,
                      <<"SAMPLED", "COLOR">>, <<"COLOR", "COLOR">>}

\* The passes of p's component before p that use the image, for the two
\* methods that look for dependencies.
EdgesInto(p, i, u) ==
    {<<s, p>> : s \in {s \in PassesOf(Owner[p]) :
        /\ u \in {"SAMPLED", "COLOR"}
        /\ declared[s] < declared[p]
        /\ i \in DOMAIN imageUsages[s]
        /\ has_image_dependency(imageUsages[s][i], u)}}

\* use_image_sampled, use_color_attachment, use_depth_stencil_attachment and
\* use_image_storage_read_only. An image that the pass already uses traps in
\* pass_image_first_use; a compute pass has one storage image.
Use(p, i, u) ==
    /\ graphState = "CREATED"
    /\ Exists(p)
    /\ i \in DOMAIN images /\ Home[i] = Owner[p]
    /\ u \in IF p \in ComputePasses THEN {"STORAGE"} ELSE {"SAMPLED", "COLOR", "DEPTH"}
    /\ UsersOf(p, {"DEPTH", "STORAGE"} \cap {u}) = {}
    /\ IF i \in DOMAIN imageUsages[p]
       THEN /\ graphState' = "trapped"
            /\ UNCHANGED <<used, imageUsages, usage, edges>>
       ELSE /\ used' = [used EXCEPT ![p] = With(@, i, u)]
            /\ imageUsages' = [imageUsages EXCEPT ![p] = With(@, i, u)]
            /\ usage' = [usage EXCEPT ![i] = @ \union {u}]
            /\ edges' = edges \union EdgesInto(p, i, u)
            /\ UNCHANGED graphState
    /\ UNCHANGED <<added, declared, images, linkVars, lateVars>>

\* dereference_image
dereference(i) ==
    LET deref[k \in Images] == IF k \in DOMAIN imageRefs THEN deref[imageRefs[k]] ELSE k
    IN  deref[i]

\* imageUsages[name] inserts the first enumerator for a pass that does not use the image.
UsageOrInsert(p, i) == IF i \in DOMAIN imageUsages[p] THEN imageUsages[p][i] ELSE "COLOR"

connect_image(src, dst) ==
    LET A == PassesOf(Home[src])
        B == PassesOf(Home[dst])
        dstUsages == IF A = {} THEN {} ELSE {UsageOrInsert(q, dst) : q \in B}
        root == dereference(src)
    IN  /\ graphState = "CREATED"
        /\ {src, dst} \subseteq DOMAIN images
        /\ images[src].type \in {"OUTPUT", "IO"}
        /\ images[dst].type \in {"INPUT", "IO"}
        /\ Home[src] # Home[dst]
        /\ dst \notin DOMAIN imageRefs
        /\ dereference(src) # dst
        /\ imageUsages' = [p \in Passes |->
              IF p \in A /\ B # {} THEN With(imageUsages[p], src, UsageOrInsert(p, src))
              ELSE IF p \in B /\ A # {} THEN With(imageUsages[p], dst, UsageOrInsert(p, dst))
              ELSE imageUsages[p]]
        /\ edges' = edges \union {e \in A \X B :
              has_image_dependency(UsageOrInsert(e[1], src), UsageOrInsert(e[2], dst))}
        /\ usage' = [usage EXCEPT ![root] = @ \union dstUsages]
        /\ images' = [images EXCEPT ![dst].extent = images[root].extent]
        /\ imageRefs' = With(imageRefs, dst, src)
        /\ forward' = (forward /\ added[Home[src]] < added[Home[dst]])
        /\ UNCHANGED <<graphState, added, declared, used, blitSrc, lateVars>>

connect_swapchain_image(src, w) ==
    /\ graphState = "CREATED"
    /\ src \in DOMAIN images
    /\ usage' = [usage EXCEPT ![dereference(src)] = @ \union {"TRANSFER_SRC"}]
    /\ blitSrc' = With(blitSrc, w, dereference(src))
    /\ UNCHANGED <<graphState, added, declared, images, passVars, imageRefs, forward, lateVars>>
-----------------------------------------------------------------------------
(* RGraphObj::sort                                                         *)

Targets(p) == {q \in Passes : <<p, q>> \in edges}

BeginSort ==
    /\ graphState = "CREATED"
    /\ graphState' = "sorting"
    /\ UNCHANGED <<declVars, lateVars>>

\* The loops of topological_sort: the passes of one component, then another one.
SortRoot(p) ==
    /\ graphState = "sorting"
    /\ stack = <<>>
    /\ Exists(p) /\ p \notin visited
    /\ sortComp \in {NotSorting, Owner[p]} \/ PassesOf(sortComp) \subseteq visited
    /\ sortComp' = Owner[p]
    /\ visited' = visited \union {p}
    /\ stack' = <<[pass |-> p, left |-> Targets(p)]>>
    /\ UNCHANGED <<graphState, declVars, passOrder, recorded, storage>>

\* One iteration of the loop of topological_visit.
SortEdge(q) ==
    /\ graphState = "sorting"
    /\ stack # <<>>
    /\ q \in Last(stack).left
    /\ LET rest == [stack EXCEPT ![Len(stack)].left = @ \ {q}] IN
       IF q \in visited
       THEN stack' = rest /\ UNCHANGED visited
       ELSE /\ stack' = Append(rest, [pass |-> q, left |-> Targets(q)])
            /\ visited' = visited \union {q}
    /\ UNCHANGED <<graphState, declVars, sortComp, passOrder, recorded, storage>>

SortReturn ==
    /\ graphState = "sorting"
    /\ stack # <<>>
    /\ Last(stack).left = {}
    /\ passOrder' = Append(passOrder, Last(stack).pass)
    /\ stack' = Front(stack)
    /\ UNCHANGED <<graphState, declVars, visited, sortComp, recorded, storage>>

\* Mutant: the finished passes are recorded in the order in which they finished.
SortEndUnreversed ==
    /\ graphState = "sorting"
    /\ stack = <<>>
    /\ \A p \in Passes : Exists(p) => p \in visited
    /\ graphState' = "SORTED"
    /\ UNCHANGED <<declVars, sortVars, recorded, storage>>

SortEnd ==
    /\ graphState = "sorting"
    /\ stack = <<>>
    /\ \A p \in Passes : Exists(p) => p \in visited
    /\ passOrder' = Reverse(passOrder)
    /\ graphState' = "SORTED"
    /\ UNCHANGED <<declVars, visited, stack, sortComp, recorded, storage>>
-----------------------------------------------------------------------------
(* RGraph::submit                                                          *)

\* Mutant: an image that exists is kept for a usage it was not created with.
get_or_create_imageBySize(i) ==
    LET state == storage[i]
    IN  IF state.handle # 0 /\ state.extent = images[i].extent
        THEN state
        ELSE [handle |-> state.handle + 1, usage |-> usage[i] \union state.usage,
              extent |-> images[i].extent, lastLayout |-> "UNDEFINED"]

\* get_or_create_image: a usage that was asked for once is kept.
get_or_create_image(i) ==
    LET state == storage[i]
        wanted == [usage |-> usage[i] \union state.usage, extent |-> images[i].extent]
    IN  IF state.handle # 0 /\ [usage |-> state.usage, extent |-> state.extent] = wanted
        THEN state
        ELSE [handle |-> state.handle + 1, usage |-> wanted.usage, extent |-> wanted.extent,
              lastLayout |-> "UNDEFINED"]

\* The attachments are acquired and take their layout; then the images that the
\* pass reads change theirs, whatever handle they have.
RecordPass ==
    LET p == passOrder[Len(recorded) + 1]
        attached == {dereference(i) : i \in UsersOf(p, AttachmentUsages)}
        read == {dereference(i) : i \in UsersOf(p, {"SAMPLED", "STORAGE"})}
        now == [i \in Images |-> IF i \in attached THEN get_or_create_image(i) ELSE storage[i]]
        layout == IF p \in ComputePasses THEN "GENERAL" ELSE "SHADER_READ_ONLY"
    IN  /\ graphState = "SORTED"
        /\ Len(recorded) < Len(passOrder)
        /\ recorded' = Append(recorded,
              [pass |-> p,
               handle |-> [i \in attached \union read |-> now[i].handle],
               from |-> [i \in read |-> now[i].lastLayout]])
        /\ storage' = [i \in Images |->
              IF i \in read THEN [now[i] EXCEPT !.lastLayout = layout]
              ELSE IF i \in attached THEN [now[i] EXCEPT !.lastLayout = "ATTACHMENT"]
              ELSE storage[i]]
        /\ UNCHANGED <<graphState, declVars, sortVars>>

\* The blits, and the submission. windows are the swapchain images of this frame.
Submit(windows) ==
    /\ graphState = "SORTED"
    /\ Len(recorded) = Len(passOrder)
    /\ IF windows \subseteq DOMAIN blitSrc
       THEN /\ storage' = [i \in Images |->
                  IF \E w \in windows : blitSrc[w] = i
                  THEN [storage[i] EXCEPT !.lastLayout = "TRANSFER_SRC"] ELSE storage[i]]
            /\ graphState' = "submitted"
       ELSE graphState' = "trapped" /\ UNCHANGED storage
    /\ UNCHANGED <<declVars, sortVars, recorded>>

DestroyGraph ==
    /\ graphState = "submitted"
    /\ graphState' = "none"
    /\ added' = [c \in Components |-> 0]
    /\ declared' = [p \in Passes |-> 0]
    /\ images' = Nothing
    /\ usage' = [i \in Images |-> {}]
    /\ used' = [p \in Passes |-> Nothing]
    /\ imageUsages' = [p \in Passes |-> Nothing]
    /\ edges' = {}
    /\ imageRefs' = Nothing
    /\ blitSrc' = Nothing
    /\ visited' = {}
    /\ stack' = <<>>
    /\ sortComp' = NotSorting
    /\ passOrder' = <<>>
    /\ recorded' = <<>>
    /\ forward' = TRUE
    /\ UNCHANGED storage
-----------------------------------------------------------------------------
SortStep ==
    \/ BeginSort
    \/ \E p \in Passes : SortRoot(p) \/ SortEdge(p)
    \/ SortReturn
    \/ SortEnd

GraphNext(windows) ==
    \/ Create
    \/ \E c \in Components : AddComponent(c)
    \/ \E i \in Images, t \in {"PRIVATE", "OUTPUT", "INPUT", "IO"}, e \in Extents : AddImage(i, t, e)
    \/ \E p \in Passes : AddPass(p)
    \/ \E p \in Passes, i \in Images, u \in AttachmentUsages \union {"SAMPLED", "STORAGE"} : Use(p, i, u)
    \/ \E src, dst \in Images : connect_image(src, dst)
    \/ \E src \in Images, w \in Windows : connect_swapchain_image(src, w)
    \/ SortStep
    \/ RecordPass
    \/ Submit(windows)
    \/ DestroyGraph

GraphSpec == GraphInit /\ [][\E windows \in SUBSET Windows : GraphNext(windows)]_graphVars
-----------------------------------------------------------------------------
(* Properties                                                              *)

IndexIn(p) == CHOOSE k \in 1..Len(passOrder) : passOrder[k] = p

\* topological_sort: every pass that was declared is recorded exactly once, and
\* after every pass it depends on, when images are connected to components that
\* were added later. The walk visits a graph whose edges the declarations built
\* one by one, in an order that the hash containers choose.
OrderRespectsEdges ==
    (graphState \in {"SORTED", "submitted"} /\ forward) =>
        /\ IsInjective(passOrder)
        /\ ToSet(passOrder) = {p \in Passes : Exists(p)}
        /\ \A e \in edges : IndexIn(e[1]) < IndexIn(e[2])
=============================================================================
