---------------------------- MODULE RenderSystem ----------------------------
(***************************************************************************)
(* The frames that LDCore/RenderSystem/Lib/RenderSystem.cpp builds with    *)
(* the components of LDCore/RenderComponent: one action per pass method,   *)
(* which queues the calls it makes on the render graph (todo), and one     *)
(* step per call. The methods are called in the order of the programs:     *)
(* world, screen, editor, dialog, each at most once in a frame.            *)
(***************************************************************************)
EXTENDS RenderGraph

CONSTANTS MaxFrames, NoImage

VARIABLES
    todo,                     \* the calls still to make
    mLastColorAttachment,     \* or NoImage
    mLastIDFlagsAttachment,
    acquired,                 \* the windows whose swapchain image was acquired
    called,                   \* the pass methods called in this frame
    extent,                   \* of the scene and of the screen, in this frame
    frames                    \* bounded by MaxFrames

PassOwner == [p \in {"forward", "outline", "gizmo", "screen", "editor", "pick", "dialog"} |->
    CASE p = "forward" -> "Forward"
      [] p \in {"outline", "gizmo"} -> "Overlay"
      [] p = "screen" -> "SceneScreen"
      [] p = "editor" -> "Editor"
      [] p = "pick" -> "ScreenPick"
      [] OTHER -> "EditorDialog"]
ImageHome == [i \in {"color", "id", "depth", "in_color", "in_id", "out_color", "out_id",
                     "screen_io", "editor_io", "editor_in", "pick_in", "dialog_io"} |->
    CASE i \in {"color", "id", "depth"} -> "Forward"
      [] i \in {"in_color", "in_id", "out_color", "out_id"} -> "Overlay"
      [] i = "screen_io" -> "SceneScreen"
      [] i \in {"editor_io", "editor_in"} -> "Editor"
      [] i = "pick_in" -> "ScreenPick"
      [] OTHER -> "EditorDialog"]

ASSUME RenderSystemConstants ==
    /\ Owner = PassOwner /\ Passes = DOMAIN PassOwner /\ ComputePasses = {"pick"}
    /\ Home = ImageHome /\ Images = DOMAIN ImageHome /\ NoImage \notin Images
    /\ Components = {PassOwner[p] : p \in Passes} /\ Windows = {"root", "dialog"}

systemVars == <<mLastColorAttachment, mLastIDFlagsAttachment, acquired, called, extent, frames>>
renderVars == <<graphVars, todo, systemVars>>

RenderInit ==
    /\ GraphInit
    /\ todo = <<>>
    /\ mLastColorAttachment = NoImage
    /\ mLastIDFlagsAttachment = NoImage
    /\ acquired = {}
    /\ called = {}
    /\ extent = 0
    /\ frames = 0
-----------------------------------------------------------------------------
(* The calls                                                               *)

Component(c) == [call |-> "component", c |-> c]
Image(i, type) == [call |-> "image", i |-> i, type |-> type]
Pass(p) == [call |-> "pass", p |-> p]
UseImage(p, i, u) == [call |-> "use", p |-> p, i |-> i, u |-> u]
Connect(src, dst) == [call |-> "connect", src |-> src, dst |-> dst]
Blit(src, w) == [call |-> "blit", src |-> src, w |-> w]

Perform(c) ==
    \/ c.call = "component" /\ AddComponent(c.c)
    \/ c.call = "image" /\ AddImage(c.i, c.type, extent)
    \/ c.call = "pass" /\ AddPass(c.p)
    \/ c.call = "use" /\ Use(c.p, c.i, c.u)
    \/ c.call = "connect" /\ connect_image(c.src, c.dst)
    \/ c.call = "blit" /\ connect_swapchain_image(c.src, c.w)

Step ==
    /\ todo # <<>>
    /\ Perform(Head(todo))
    /\ todo' = Tail(todo)
    /\ UNCHANGED systemVars

ForwardRenderComponent_add ==
    <<Component("Forward"),
      Image("color", "OUTPUT"), Image("id", "OUTPUT"), Image("depth", "OUTPUT"), Pass("forward"),
      UseImage("forward", "color", "COLOR"), UseImage("forward", "id", "COLOR"),
      UseImage("forward", "depth", "DEPTH")>>

SceneOverlayComponent_add ==
    <<Component("Overlay"),
      Image("in_color", "INPUT"), Image("in_id", "INPUT"),
      Image("out_color", "OUTPUT"), Image("out_id", "OUTPUT"),
      Pass("outline"), UseImage("outline", "in_color", "COLOR"), UseImage("outline", "in_id", "SAMPLED"),
      Pass("gizmo"), UseImage("gizmo", "out_color", "COLOR"), UseImage("gizmo", "out_id", "COLOR"),
      UseImage("gizmo", "in_color", "SAMPLED"), UseImage("gizmo", "in_id", "SAMPLED")>>

\* The screen component draws on its own image or, with an input image, on another one's.
ScreenRenderComponent_add(c, p, io, hasInputImage) ==
    <<Component(c), Image(io, IF hasInputImage THEN "IO" ELSE "OUTPUT"), Pass(p), UseImage(p, io, "COLOR")>>

ScreenPickComponent_add ==
    <<Component("ScreenPick"), Image("pick_in", "INPUT"), Pass("pick"), UseImage("pick", "pick_in", "STORAGE")>>
-----------------------------------------------------------------------------
(* The methods                                                             *)

MayCall(method, before) ==
    /\ graphState = "CREATED"
    /\ todo = <<>>
    /\ called \intersect (before \union {method, "submit"}) = {}
    /\ called' = called \union {method}

next_frame(windows, e) ==
    /\ frames < MaxFrames
    /\ todo = <<>>
    /\ Create
    /\ acquired' = windows
    /\ extent' = e
    /\ mLastColorAttachment' = NoImage
    /\ mLastIDFlagsAttachment' = NoImage
    /\ called' = {}
    /\ frames' = frames + 1
    /\ UNCHANGED todo

\* Without a swapchain image of the root window the pass methods return at once.
Skipped == "root" \notin acquired /\ UNCHANGED <<todo, mLastColorAttachment, mLastIDFlagsAttachment>>

world_pass(overlay) ==
    /\ MayCall("world", {"screen", "editor", "dialog"})
    /\ \/ Skipped
       \/ /\ "root" \in acquired
          /\ todo' = ForwardRenderComponent_add \o
                IF overlay
                THEN SceneOverlayComponent_add \o <<Connect("color", "in_color"), Connect("id", "in_id")>>
                ELSE <<>>
          /\ mLastColorAttachment' = IF overlay THEN "out_color" ELSE "color"
          /\ mLastIDFlagsAttachment' = IF overlay THEN "out_id" ELSE "id"
    /\ UNCHANGED <<graphVars, acquired, extent, frames>>

screen_pass ==
    LET hasInputImage == mLastColorAttachment # NoImage IN
    /\ MayCall("screen", {"editor", "dialog"})
    /\ \/ Skipped
       \/ /\ "root" \in acquired
          /\ todo' = ScreenRenderComponent_add("SceneScreen", "screen", "screen_io", hasInputImage) \o
                IF hasInputImage THEN <<Connect(mLastColorAttachment, "screen_io")>> ELSE <<>>
          /\ mLastColorAttachment' = "screen_io"
          /\ UNCHANGED mLastIDFlagsAttachment
    /\ UNCHANGED <<graphVars, acquired, extent, frames>>

\* Asserts that something was drawn before.
editor_pass ==
    /\ MayCall("editor", {"dialog"})
    /\ \/ Skipped
       \/ /\ "root" \in acquired
          /\ mLastColorAttachment # NoImage
          /\ todo' = ScreenRenderComponent_add("Editor", "editor", "editor_io", FALSE) \o
                <<Image("editor_in", "INPUT"), UseImage("editor", "editor_in", "SAMPLED"),
                  Connect(mLastColorAttachment, "editor_in")>> \o
                IF mLastIDFlagsAttachment = NoImage THEN <<>>
                ELSE ScreenPickComponent_add \o <<Connect(mLastIDFlagsAttachment, "pick_in")>>
          /\ mLastColorAttachment' = "editor_io"
          /\ UNCHANGED mLastIDFlagsAttachment
    /\ UNCHANGED <<graphVars, acquired, extent, frames>>

\* A program that has the root window draws in it first.
editor_dialog_pass ==
    /\ MayCall("dialog", {})
    /\ "dialog" \in acquired
    /\ "root" \in acquired => mLastColorAttachment # NoImage
    /\ todo' = ScreenRenderComponent_add("EditorDialog", "dialog", "dialog_io", FALSE) \o
          <<Blit("dialog_io", "dialog")>>
    /\ UNCHANGED <<graphVars, mLastColorAttachment, mLastIDFlagsAttachment, acquired, extent, frames>>

\* A program draws something in each window that it gives to next_frame.
submit_frame ==
    /\ MayCall("submit", {})
    /\ "dialog" \in acquired => "dialog" \in called
    /\ "root" \in acquired => mLastColorAttachment # NoImage
    /\ todo' = IF "root" \in acquired THEN <<Blit(mLastColorAttachment, "root")>> ELSE <<>>
    /\ UNCHANGED <<graphVars, mLastColorAttachment, mLastIDFlagsAttachment, acquired, extent, frames>>

\* The rest of submit_frame runs inside the graph.
InGraph ==
    /\ "submit" \in called /\ todo = <<>>
    /\ SortStep \/ RecordPass \/ Submit(acquired) \/ DestroyGraph
    /\ UNCHANGED <<todo, systemVars>>

RenderNext ==
    \/ \E windows \in SUBSET {"root", "dialog"}, e \in Extents : next_frame(windows, e)
    \/ \E overlay \in BOOLEAN : world_pass(overlay)
    \/ screen_pass
    \/ editor_pass
    \/ editor_dialog_pass
    \/ submit_frame
    \/ Step
    \/ InGraph

RenderSpec == RenderInit /\ [][RenderNext]_renderVars
-----------------------------------------------------------------------------
(* Properties                                                              *)

Drawn(p) == {k \in 1..Len(recorded) : recorded[k].pass = p}
Reads == {"SAMPLED", "STORAGE"}
UsesOf(p) == {<<dereference(i), used[p][i]>> : i \in DOMAIN used[p]}
Conflict(p, q) ==
    \E s \in UsesOf(p), t \in UsesOf(q) : s[1] = t[1] /\ ~(s[2] \in Reads /\ t[2] \in Reads)

\* RenderSystem.cpp declares its passes in the order in which they are to be drawn, and
\* hands the images to the next component as inputs; RGraph.cpp looks at pairs of uses of
\* the components that are connected directly. Of two passes that use one physical image,
\* through any number of references, and do not both only read it, the one that was
\* declared first is recorded first.
DrawnInOrder ==
    \A p, q \in Passes :
        declared[p] < declared[q] /\ Conflict(p, q) =>
            \A m \in Drawn(p), n \in Drawn(q) : m < n

\* No frame traps: every pass finds its images unused, and submit finds an image for each
\* window. And what get_or_create_image leaves: every image of a recorded pass still has the
\* handle that was recorded, which was created for each use made of it in the frame, and in
\* the size that the frame declared; and what is sampled or stored from has been drawn.
ImagesFit ==
    /\ graphState # "trapped"
    /\ graphState \in {"SORTED", "submitted"} => \A k \in 1..Len(recorded) :
        LET r == recorded[k] IN
        /\ \A u \in UsesOf(r.pass) :
              /\ storage[u[1]].handle = r.handle[u[1]] /\ r.handle[u[1]] # 0
              /\ u[2] \in storage[u[1]].usage
              /\ storage[u[1]].extent = images[u[1]].extent
        /\ \A i \in DOMAIN r.from : r.from[i] # "UNDEFINED"
=============================================================================
