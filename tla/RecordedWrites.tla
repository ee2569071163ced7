--------------------------- MODULE RecordedWrites ---------------------------
(***************************************************************************)
(* What the client remembers of the commands it sends.  The driver cannot  *)
(* see a device's writes to mapped coherent memory, so while the commands  *)
(* are recorded the client notes which allocations they write and which of *)
(* those writes a barrier hands to the host; vkQueueSubmit reads the note  *)
(* (client/device.cpp:377-407) and module CoherentTracking takes it from   *)
(* there.  Writes through descriptor sets are noted by set: what the sets  *)
(* name is kept in descriptor_resources, by slot, and looked up at the     *)
(* barrier or at the submission.                                           *)
(*                                                                         *)
(* An application records buffers, executes secondaries in primaries,      *)
(* updates descriptor sets it has not recorded yet (an update of a set a   *)
(* recorded buffer uses invalidates that buffer) and submits.  The         *)
(* variables contents and device say what the server's driver was told:    *)
(* every slot of every set, and for each buffer the resources its commands *)
(* write and those a host barrier covers.  They are exact and per          *)
(* resource; the client's note is per allocation and indirect.             *)
(***************************************************************************)
EXTENDS Naturals, FiniteSets, Sequences, SequencesExt

CONSTANTS
    Primaries, Secondaries,    \* command buffers, all of one pool
    Buffers, Images,
    Views,                     \* image views and buffer views
    Sets,                      \* descriptor sets, all of one layout
    Framebuffers,
    Memory,                    \* the allocation each resource is bound to
    Viewed,                    \* the resource each view is of
    Attachments,               \* framebuffer -> its views; {} when imageless
    Layout,                    \* <<binding, descriptorCount>>, sorted
    MaxCommands,               \* bound: commands recorded, over all buffers
    MaxUpdates,                \* bound: descriptor updates
    MaxRecordedUpdates,        \* bounds: updates made, and slots filled, before
    MaxFilled                  \*         a recording starts

Resources == Buffers \cup Images
CommandBuffers == Primaries \cup Secondaries
ImageViews == {v \in Views : Viewed[v] \in Images}

ASSUME ResourcesAssumption ==
    /\ Primaries \cap Secondaries = {}
    /\ Buffers \cap Images = {}
    /\ DOMAIN Memory = Resources
    /\ Viewed \in [Views -> Resources]
    /\ Attachments \in [Framebuffers -> SUBSET ImageViews]

ASSUME LayoutAssumption ==
    /\ Layout \in Seq(Nat \X Nat)
    /\ \A i, j \in 1..Len(Layout) : i < j => Layout[i][1] < Layout[j][1]

ASSUME BoundsAssumption ==
    /\ MaxCommands \in Nat /\ MaxUpdates \in Nat /\ MaxRecordedUpdates \in Nat
    /\ MaxFilled \in Nat

Memories == {Memory[r] : r \in Resources}
Points == {"graphics", "compute"}

\* The descriptors a slot can hold: those a shader may write through, and one
\* it may only read.
Descriptors ==
    [type : {"STORAGE_BUFFER"}, object : Buffers]
        \cup [type : {"STORAGE_IMAGE"}, object : ImageViews]
        \cup [type : {"STORAGE_TEXEL_BUFFER"}, object : Views \ ImageViews]
        \cup [type : {"UNIFORM_BUFFER"}, object : Buffers]
Storage == {"STORAGE_BUFFER", "STORAGE_IMAGE", "STORAGE_TEXEL_BUFFER"}
NoObject == "none"

ASSUME ObjectsAssumption == NoObject \notin Buffers \cup Views

\* The slots of a set: a binding and an element of it.
Slots == UNION {{<<Layout[i][1], e>> : e \in 0..(Layout[i][2] - 1)} : i \in 1..Len(Layout)}

Empty == [s \in {} |-> NoObject]

VARIABLES
    resources,     \* descriptor_resources: set -> slot -> descriptor
    contents,      \* what the driver holds in each set: slot -> descriptor
    cb,            \* RemoteCommandBuffer, per command buffer
    device,        \* what the driver recorded, per command buffer
    updates,       \* descriptor updates made, for MaxUpdates
    commands       \* commands recorded, for MaxCommands

vars == <<resources, contents, cb, device, updates, commands>>

Fresh == [pending_writes |-> {}, host_visible_writes |-> {},
          bound |-> [p \in Points |-> {}],
          writable_descriptor_sets |-> {}, descriptor_writes_host_visible |-> FALSE]
Unrecorded == [written |-> {}, visible |-> {},
               handed |-> {}, barriers |-> {}]

Init ==
    /\ commands = 0
    /\ resources = [s \in Sets |-> Empty]
    /\ contents = [s \in Sets |-> Empty]
    /\ cb = [c \in CommandBuffers |-> Fresh]
    /\ device = [c \in CommandBuffers |-> Unrecorded]
    /\ updates = 0

-----------------------------------------------------------------------------
(***************************************************************************)
(* Descriptor sets (client/device.cpp).                                    *)
(***************************************************************************)

\* DescriptorSlotCursor: a binding's index and an element.  It is past the end
\* when no binding is left.
Cursor == [index : 1..(Len(Layout) + 1), element : Nat]

IndexOf(binding) ==
    Cardinality({i \in 1..Len(Layout) : Layout[i][1] < binding}) + 1
descriptor_cursor(slot) == [index |-> IndexOf(slot[1]), element |-> slot[2]]

advance(c) ==
    IF c.index > Len(Layout) THEN c
    ELSE IF c.element + 1 < Layout[c.index][2] THEN [c EXCEPT !.element = @ + 1]
    ELSE LET rest == {i \in (c.index + 1)..Len(Layout) : Layout[i][2] # 0} IN
         [index |-> IF rest = {} THEN Len(Layout) + 1
                    ELSE CHOOSE i \in rest : \A j \in rest : i <= j,
          element |-> 0]

\* current: the slot under the cursor, or the slot counted on in the binding
\* the update names when there is none.
current(c, otherwise) ==
    IF c.index <= Len(Layout) /\ c.element < Layout[c.index][2]
    THEN <<Layout[c.index][1], c.element>> ELSE otherwise

\* The keys an update of n descriptors from slot touches, in order.
Walk(slot, n) ==
    LET at[j \in 0..n] == IF j = 0 THEN descriptor_cursor(slot) ELSE advance(at[j - 1])
    IN  at
Keys(slot, n) ==
    [j \in 1..n |-> current(Walk(slot, n)[j - 1], <<slot[1], slot[2] + j - 1>>)]

\* A DescriptorResource names an object only if it is storage.
Resource(d) == IF d.type \in Storage THEN d ELSE [type |-> d.type, object |-> NoObject]

\* f with the pairs <<keys[j], values[j]>> put in, in order.
Put(f, keys, values) ==
    [k \in DOMAIN f \cup ToSet(keys) |->
        LET at == {j \in 1..Len(keys) : keys[j] = k} IN
        IF at = {} THEN f[k] ELSE values[CHOOSE j \in at : \A i \in at : i <= j]]

\* The last step of every update: what names an object is put in, and what
\* names none takes the slot's entry away.
MergeKeeping(known, touched) == touched @@ known
Merge(known, touched) ==
    [k \in {k \in DOMAIN known \cup DOMAIN touched :
              k \in DOMAIN touched => touched[k].object # NoObject} |->
        IF k \in DOMAIN touched THEN touched[k] ELSE known[k]]

\* The driver's side: the n slots from slot on, in the order in which
\* consecutive updates run on from one binding to the next.
Before(k, l) == k[1] < l[1] \/ (k[1] = l[1] /\ k[2] < l[2])
Adjacent(k, l) == Before(k, l) /\ ~ \E m \in Slots : Before(k, m) /\ Before(m, l)
Runs(slot, n) ==
    {q \in [1..n -> Slots] : q[1] = slot /\ \A j \in 2..n : Adjacent(q[j - 1], q[j])}
HasRoom(slot, n) == Runs(slot, n) # {}
Run(slot, n) == CHOOSE q \in Runs(slot, n) : TRUE

IsRecorded(c) == cb[c] # Fresh \/ device[c] # Unrecorded
Recorded == \E c \in CommandBuffers : IsRecorded(c)

\* vkUpdateDescriptorSets with one write, and vkUpdateDescriptorSetWithTemplate
\* with one entry: ds from slot on.
Write(s, slot, ds) ==
    LET touched == Put(Empty, Keys(slot, Len(ds)), [j \in 1..Len(ds) |-> Resource(ds[j])])
    IN  /\ HasRoom(slot, Len(ds))
        /\ resources' = [resources EXCEPT ![s] = Merge(@, touched)]
        /\ contents' = [contents EXCEPT ![s] = Put(@, Run(slot, Len(ds)), ds)]

\* vkUpdateDescriptorSets with one write of d at slot and one copy of n
\* descriptors from there: the copy sees the write, which is not yet among the
\* device's resources.
SourceOf(known, touched) == Merge(known, touched)

WriteAndCopy(s, slot, d, t, to, n) ==
    LET touched == Put(Empty, Keys(slot, 1), <<Resource(d)>>)
        source == SourceOf(resources[s], touched)
        from == Keys(slot, n)
        snapshot == [j \in 1..n |-> IF from[j] \in DOMAIN source THEN source[from[j]]
                                    ELSE [type |-> "SAMPLER", object |-> NoObject]]
        written == Put(contents[s], Run(slot, 1), <<d>>)
        copied == [j \in 1..n |-> written[Run(slot, n)[j]]]
    IN  /\ s # t /\ HasRoom(slot, n) /\ HasRoom(to, n)
        /\ ToSet(Run(slot, n)) \subseteq DOMAIN written
        /\ resources' = [resources EXCEPT ![s] = Merge(@, touched),
                                          ![t] = Merge(@, Put(Empty, Keys(to, n), snapshot))]
        /\ contents' = [contents EXCEPT ![s] = written,
                                        ![t] = Put(@, Run(to, n), copied)]

UpdateDescriptorSets(s) ==
    /\ ~Recorded /\ updates < MaxUpdates
    /\ updates' = updates + 1
    /\ \E slot \in Slots :
          \/ \E d \in Descriptors : Write(s, slot, <<d>>)
          \/ \E d, e \in Descriptors : Write(s, slot, <<d, e>>)
          \/ \E d \in Descriptors, t \in Sets, to \in Slots, n \in 1..2 :
                WriteAndCopy(s, slot, d, t, to, n)
    /\ UNCHANGED <<cb, device, commands>>

\* vkFreeDescriptorSets, vkResetDescriptorPool and vkDestroyDescriptorPool take
\* a set's entries away; the name comes back with vkAllocateDescriptorSets only
\* as a fresh set.
FreeDescriptorSets(s) ==
    /\ ~Recorded /\ updates < MaxUpdates
    /\ updates' = updates + 1
    /\ DOMAIN contents[s] # {}
    /\ resources' = [resources EXCEPT ![s] = Empty]
    /\ contents' = [contents EXCEPT ![s] = Empty]
    /\ UNCHANGED <<cb, device, commands>>

-----------------------------------------------------------------------------
(***************************************************************************)
(* Recording (client/commands.cpp).                                        *)
(***************************************************************************)

\* The resource a descriptor lets a shader write, through its view if it names
\* a view.
Reaches(d) == IF d.object \in Views THEN Viewed[d.object] ELSE d.object
WrittenThrough(known) == {Reaches(known[k]) : k \in {k \in DOMAIN known : known[k].type \in Storage}}

Recordable(c) ==
    /\ updates <= MaxRecordedUpdates
    /\ Cardinality(UNION {{s} \X DOMAIN contents[s] : s \in Sets}) <= MaxFilled
    /\ commands < MaxCommands
    /\ commands' = commands + 1

\* A command c writes rs on the device, and the client's note becomes note.
Records(c, rs, note) ==
    /\ Recordable(c)
    /\ cb' = [cb EXCEPT ![c] = note]
    /\ device' = [device EXCEPT ![c].written = @ \cup rs]
    /\ UNCHANGED <<resources, contents, updates>>

Forget(cs) ==
    /\ cb' = [c \in CommandBuffers |-> IF c \in cs THEN Fresh ELSE cb[c]]
    /\ device' = [c \in CommandBuffers |-> IF c \in cs THEN Unrecorded ELSE device[c]]
    /\ UNCHANGED <<resources, contents, updates, commands>>

\* vkBeginCommandBuffer, vkResetCommandBuffer.
BeginKeepingSets(c) ==
    /\ IsRecorded(c)
    /\ cb' = [cb EXCEPT ![c] = [Fresh EXCEPT !.writable_descriptor_sets =
                                                 cb[c].writable_descriptor_sets]]
    /\ device' = [device EXCEPT ![c] = Unrecorded]
    /\ UNCHANGED <<resources, contents, updates, commands>>
BeginCommandBuffer(c) == IsRecorded(c) /\ Forget({c})

\* vkResetCommandPool: every buffer of the pool, once the server has done it.
ResetCommandPool == Recorded /\ Forget(CommandBuffers)

\* vkCmdCopy*, vkCmdBlitImage, vkCmdResolveImage, vkCmdFillBuffer,
\* vkCmdUpdateBuffer, vkCmdClear*Image, vkCmdCopyQueryPoolResults.
Transfer(c, dst) ==
    Records(c, {dst}, [cb[c] EXCEPT !.pending_writes = @ \cup {Memory[dst]}])

\* vkCmdBeginRenderPass(2): the attachments are the framebuffer's, or those the
\* call names if it is imageless.
FramebufferViews(fb, named) == IF Attachments[fb] # {} THEN Attachments[fb] ELSE named
BeginRenderPass(c, fb, named) ==
    LET images == {Viewed[v] : v \in FramebufferViews(fb, named)} IN
    /\ named # {} => Attachments[fb] = {}
    /\ Records(c, images,
               [cb[c] EXCEPT !.pending_writes = @ \cup {Memory[i] : i \in images}])

\* vkCmdBindDescriptorSets, with one set number: the set bound before it goes.
BindDescriptorSets(c, point, s) ==
    Records(c, {}, [cb[c] EXCEPT !.bound[point] = {s}])

\* vkCmdDraw*, vkCmdDispatch*: mark_descriptor_writes.
mark_graphics_writes(c, point) == cb[c].bound["graphics"]
mark_descriptor_writes(c, point) == cb[c].bound[point]
Draw(c, point) ==
    Records(c, UNION {WrittenThrough(contents[s]) : s \in cb[c].bound[point]},
            [cb[c] EXCEPT !.writable_descriptor_sets =
                              @ \cup mark_descriptor_writes(c, point)])

\* The device's side of a barrier to the host, for every resource or for one.
Everything == "everything"
Covered(scope) == IF scope = Everything THEN Resources ELSE {scope}
Bars(c, scope, note) ==
    /\ Recordable(c)
    /\ cb' = [cb EXCEPT ![c] = note]
    /\ device' = [device EXCEPT ![c] =
          [device[c] EXCEPT !.visible = @ \cup (device[c].written \cap Covered(scope)),
                            !.handed = @ \cup (device[c].written \cap Covered(scope)),
                            !.barriers = @ \cup {scope}]]
    /\ UNCHANGED <<resources, contents, updates>>

\* vkCmdPipelineBarrier and vkCmdWaitEvents to the host stage.
NamedBySets(c, r) ==
    \E s \in cb[c].writable_descriptor_sets : r \in WrittenThrough(resources[s])

PipelineBarrier(c, scope) ==
    Bars(c, scope,
         IF scope = Everything
         THEN [cb[c] EXCEPT !.host_visible_writes = @ \cup cb[c].pending_writes,
                            !.descriptor_writes_host_visible = TRUE]
         ELSE [cb[c] EXCEPT !.host_visible_writes = @ \cup
                  {m \in {Memory[scope]} : m \in cb[c].pending_writes \/ NamedBySets(c, scope)}])

\* vkCmdPipelineBarrier2 and vkCmdWaitEvents2: a barrier on one resource is
\* noted whether or not the resource was written.
PipelineBarrier2(c, scope) ==
    Bars(c, scope,
         IF scope = Everything
         THEN [cb[c] EXCEPT !.host_visible_writes = @ \cup cb[c].pending_writes,
                            !.descriptor_writes_host_visible = TRUE]
         ELSE [cb[c] EXCEPT !.host_visible_writes = @ \cup {Memory[scope]}])

\* vkCmdExecuteCommands with one secondary.
Inherit(c, x) ==
    [cb[c] EXCEPT !.pending_writes = @ \cup cb[x].pending_writes,
                  !.host_visible_writes = @ \cup cb[x].host_visible_writes,
                  !.writable_descriptor_sets = @ \cup cb[x].writable_descriptor_sets,
                  !.descriptor_writes_host_visible =
                      @ \/ cb[x].descriptor_writes_host_visible]

ExecuteCommands(c, x) ==
    LET covered == UNION {Covered(b) : b \in device[x].barriers} IN
    /\ c \in Primaries /\ x \in Secondaries
    /\ IsRecorded(x)
    /\ Recordable(c)
    /\ cb' = [cb EXCEPT ![c] = Inherit(c, x)]
    /\ device' = [device EXCEPT ![c] =
          [device[c] EXCEPT !.written = @ \cup device[x].written,
                            !.visible = @ \cup device[x].visible,
                            !.handed = @ \cup device[x].handed
                                          \cup (device[c].written \cap covered),
                            !.barriers = @ \cup device[x].barriers]]
    /\ UNCHANGED <<resources, contents, updates>>

-----------------------------------------------------------------------------
(***************************************************************************)
(* vkQueueSubmit, vkQueueSubmit2: the note of the buffers submitted        *)
(* (client/device.cpp:377-407, 569-599).                                   *)
(***************************************************************************)

submit_writes(cs) ==
    (UNION {cb[c].host_visible_writes : c \in cs}) \cup
    {Memory[r] : r \in UNION {WrittenThrough(resources[s]) :
        s \in UNION {cb[c].writable_descriptor_sets :
                       c \in {c \in cs : cb[c].descriptor_writes_host_visible}}}}

-----------------------------------------------------------------------------
Next ==
    \/ \E s \in Sets : UpdateDescriptorSets(s) \/ FreeDescriptorSets(s)
    \/ \E c \in CommandBuffers :
          \/ BeginCommandBuffer(c)
          \/ \E r \in Resources : Transfer(c, r)
          \/ \E fb \in Framebuffers, named \in SUBSET ImageViews :
                BeginRenderPass(c, fb, named)
          \/ \E p \in Points, s \in Sets : BindDescriptorSets(c, p, s)
          \/ \E p \in Points : Draw(c, p)
          \/ \E scope \in Resources \cup {Everything} :
                PipelineBarrier(c, scope) \/ PipelineBarrier2(c, scope)
          \/ \E x \in Secondaries : ExecuteCommands(c, x)
    \/ ResetCommandPool

Spec == Init /\ [][Next]_vars

-----------------------------------------------------------------------------
(***************************************************************************)
(* Properties.                                                             *)
(***************************************************************************)

\* Every variable has its type.
TypeOK ==
    /\ \A s \in Sets :
          /\ DOMAIN resources[s] \subseteq Slots
          /\ DOMAIN contents[s] \subseteq Slots
          /\ \A k \in DOMAIN contents[s] : contents[s][k] \in Descriptors
    /\ \A c \in CommandBuffers :
          /\ cb[c].pending_writes \cup cb[c].host_visible_writes \subseteq Memories
          /\ cb[c].writable_descriptor_sets \subseteq Sets
          /\ device[c].written \cup device[c].handed \subseteq Resources
    /\ updates \in 0..MaxUpdates /\ commands \in 0..MaxCommands

\* What the client believes of a descriptor set is what the driver holds: the
\* storage descriptors, each in its slot, through writes that run on into the
\* next binding, slots taken over by other types, and copies of what the same
\* call wrote (client/device.cpp:54-90, 1581-1687).
MetadataAgrees ==
    \A s \in Sets :
        LET storage == {k \in DOMAIN contents[s] : contents[s][k].type \in Storage} IN
        resources[s] = [k \in storage |-> contents[s][k]]

\* Whatever is submitted, its note has every allocation its commands write and
\* hand to the host by a barrier of the same buffer, or of the primary after a
\* secondary: nothing the application may read afterwards is left where it is
\* (client/commands.cpp:36-69, 430-491, 679-733, client/device.cpp:377-407).
HandedOverIsNoted ==
    \A c \in Primaries :
        {Memory[r] : r \in device[c].visible} \subseteq submit_writes({c})

\* Whatever is submitted, its note has only allocations that its buffers, as
\* they are recorded now, write or name in a barrier: nothing is left of what a
\* buffer recorded before it was begun again or its pool was reset, whose
\* download would overwrite what the application has stored since
\* (client/commands.cpp:126-196).
NotedIsRecorded ==
    \A c \in Primaries :
        submit_writes({c}) \subseteq
            {Memory[r] : r \in device[c].written \cup (device[c].barriers \ {Everything})}

\* HandedOverIsNoted for every host barrier, also one in a secondary, or in
\* another buffer of the submission, after the write it covers.  It does not
\* hold: the client notes barriers buffer by buffer.
EveryHandedOverIsNoted ==
    \A c, d \in Primaries :
        LET across == IF c = d THEN {}
                      ELSE device[c].written \cap UNION {Covered(b) : b \in device[d].barriers}
        IN  {Memory[r] : r \in device[c].handed \cup device[d].handed \cup across}
                \subseteq submit_writes({c, d})

\* The client's records of descriptor sets are within the layout and those of the driver.
DescriptorsKnown == TypeOK /\ MetadataAgrees
=============================================================================
