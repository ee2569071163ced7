--------------------------- MODULE CommandRequests ---------------------------
(* The requests that record commands and manage command buffers: what
   src/client/commands.cpp puts in each, and how the handler in
   src/server/handlers_command.cpp takes it apart; see module Wire for the
   language.  A client function that returns before it sends gives up.  A handler
   that marks an error refuses the request; which of several conditions made it
   do so is left out.  (vkFreeCommandBuffers alone has forgotten names by then:
   module ObjectTables.)  That the driver has the entry points the handlers look up by name is taken
   for granted.                                                              *)
EXTENDS MarshalStructs

\* The handle a command is recorded into, as every handler starts and ends.
Into(body) == Id("commandBuffer") \o body \o Required("commandBuffer")
\* c.reader.remaining() != 0 refuses the request.
End == <<[op |-> "end"]>>
\* A count the handler bounds by what is left of the message.
CountFits(n, bytes) == Word(n) \o Fits(n, bytes)
\* The same, and by kMaxArrayElements.
CountBounded(n, bytes) == Word(n) \o Limit(n) \o Fits(n, bytes)
\* An array of blobs, each with its length before it.
Blobs(f, n) == Each(n, Blob(f))

-----------------------------------------------------------------------------
write_PoolRequests ==
    [AllocateCommandBuffers |-> Id("device") \o write_CommandBufferAllocateInfo,
     FreeCommandBuffers |->
        Id("device") \o Id("pool") \o Word("count") \o Ids("commandBuffers", "count"),
     BeginCommandBuffer |-> Id("commandBuffer") \o write_CommandBufferBeginInfo,
     EndCommandBuffer |-> Id("commandBuffer"),
     ResetCommandBuffer |-> Id("commandBuffer") \o Word("flags"),
     TrimCommandPool |-> Id("device") \o Id("pool") \o Word("flags"),
     ResetCommandPool |-> Id("device") \o Id("pool") \o Word("flags")]
handle_PoolRequests ==
    [AllocateCommandBuffers |-> Id("device") \o Ok \o Required("device") \o read_CommandBufferAllocateInfo,
     FreeCommandBuffers |->
        Id("device") \o Id("pool") \o Patch("pool") \o CountFits("count", 8) \o
        Each("count", Id("commandBuffers") \o Patch("commandBuffers")) \o Ok \o Required("device"),
     BeginCommandBuffer |-> Id("commandBuffer") \o Ok \o Required("commandBuffer") \o read_CommandBufferBeginInfo,
     EndCommandBuffer |-> Into(Ok),
     ResetCommandBuffer |-> Into(Word("flags") \o Ok),
     TrimCommandPool |-> Id("device") \o Id("pool") \o Word("flags") \o Ok \o Required("device") \o Required("pool"),
     ResetCommandPool |-> Id("device") \o Id("pool") \o Word("flags") \o Ok \o Required("device") \o Required("pool")]

write_RenderPassRequests ==
    [CmdBeginRenderPass |-> Id("commandBuffer") \o write_RenderPassBeginInfo \o Word("contents"),
     CmdNextSubpass |-> Id("commandBuffer") \o Word("contents"),
     CmdEndRenderPass |-> Id("commandBuffer"),
     CmdBeginRenderPass2 |-> Id("commandBuffer") \o write_RenderPassBeginInfo \o write_SubpassBeginInfo,
     CmdNextSubpass2 |-> Id("commandBuffer") \o write_SubpassBeginInfo \o write_SubpassEndInfo,
     CmdEndRenderPass2 |-> Id("commandBuffer") \o write_SubpassEndInfo,
     CmdSetFragmentShadingRateKHR |->
        Id("commandBuffer") \o Extent("width", "height") \o Words(<<"combinerOp0", "combinerOp1">>),
     CmdSetDeviceMask |-> Id("commandBuffer") \o Word("deviceMask"),
     CmdDispatchBase |->
        Id("commandBuffer") \o Words(<<"baseX", "baseY", "baseZ", "groupCountX", "groupCountY", "groupCountZ">>)]
handle_RenderPassRequests ==
    [CmdBeginRenderPass |->
        Id("commandBuffer") \o Ok \o Required("commandBuffer") \o read_RenderPassBeginInfo \o Word("contents") \o Ok,
     CmdNextSubpass |-> Into(Word("contents") \o Ok),
     CmdEndRenderPass |-> Into(Ok),
     CmdBeginRenderPass2 |->
        Id("commandBuffer") \o Ok \o Required("commandBuffer") \o read_RenderPassBeginInfo \o read_SubpassBeginInfo,
     CmdNextSubpass2 |->
        Id("commandBuffer") \o Ok \o Required("commandBuffer") \o read_SubpassBeginInfo \o read_SubpassEndInfo,
     CmdEndRenderPass2 |-> Id("commandBuffer") \o Ok \o Required("commandBuffer") \o read_SubpassEndInfo,
     CmdSetFragmentShadingRateKHR |->
        Into(Extent("width", "height") \o Words(<<"combinerOp0", "combinerOp1">>) \o Ok),
     CmdSetDeviceMask |-> Into(Word("deviceMask") \o Ok),
     CmdDispatchBase |->
        Into(Words(<<"baseX", "baseY", "baseZ", "groupCountX", "groupCountY", "groupCountZ">>) \o Ok)]

-----------------------------------------------------------------------------
write_BindRequests ==
    [CmdBindPipeline |-> Id("commandBuffer") \o Word("pipelineBindPoint") \o Id("pipeline"),
     CmdBindDescriptorSets |->
        In("layout", Handles) \o When("setCount", Nat \ {0}, In("descriptorSets", Handles)) \o
        Id("commandBuffer") \o Word("pipelineBindPoint") \o Id("layout") \o
        Words(<<"firstSet", "setCount">>) \o Ids("descriptorSets", "setCount") \o
        Word("dynamicOffsetCount") \o Each("dynamicOffsetCount", Word("dynamicOffset")),
     CmdBindVertexBuffers |->
        Id("commandBuffer") \o Words(<<"firstBinding", "bindingCount">>) \o
        Each("bindingCount", Id("buffer") \o Wide("offset")),
     CmdBindIndexBuffer |->
        In("buffer", Handles) \o Id("commandBuffer") \o Id("buffer") \o Wide("offset") \o Word("indexType"),
     CmdSetViewport |-> Id("commandBuffer") \o Words(<<"first", "count">>) \o Blobs("viewport", "count"),
     CmdSetScissor |-> Id("commandBuffer") \o Words(<<"first", "count">>) \o Blobs("scissor", "count")]
handle_BindRequests ==
    [CmdBindPipeline |-> Into(Word("pipelineBindPoint") \o Id("pipeline") \o Patch("pipeline") \o Ok),
     CmdBindDescriptorSets |->
        Into(Word("pipelineBindPoint") \o Id("layout") \o Word("firstSet") \o CountBounded("setCount", 8) \o
             Each("setCount", Id("descriptorSets") \o Required("descriptorSets")) \o
             CountBounded("dynamicOffsetCount", 4) \o Each("dynamicOffsetCount", Word("dynamicOffset")) \o
             Ok \o End \o Required("layout")),
     CmdBindVertexBuffers |->
        Into(Word("firstBinding") \o CountBounded("bindingCount", 16) \o
             Each("bindingCount", Id("buffer") \o Wide("offset") \o Required("buffer")) \o Ok),
     CmdBindIndexBuffer |->
        Into(Id("buffer") \o Wide("offset") \o Word("indexType") \o Ok \o Required("buffer")),
     CmdSetViewport |-> Into(Word("first") \o CountFits("count", 4) \o Ok \o Blobs("viewport", "count")),
     CmdSetScissor |-> Into(Word("first") \o CountFits("count", 4) \o Ok \o Blobs("scissor", "count"))]

DrawFields == Words(<<"vertexCount", "instanceCount", "firstVertex", "firstInstance">>)
DrawIndexedFields ==
    Words(<<"indexCount", "instanceCount", "firstIndex", "vertexOffset", "firstInstance">>)
DispatchFields == Words(<<"groupCountX", "groupCountY", "groupCountZ">>)
write_DrawRequests ==
    [CmdDraw |-> Id("commandBuffer") \o DrawFields,
     CmdDispatch |-> Id("commandBuffer") \o DispatchFields,
     CmdDrawIndexed |-> Id("commandBuffer") \o DrawIndexedFields]
handle_DrawRequests ==
    [CmdDraw |-> Into(DrawFields \o Ok),
     CmdDispatch |-> Into(DispatchFields \o Ok),
     CmdDrawIndexed |-> Into(DrawIndexedFields \o Ok)]

\* The two sides agree on the format of barriers; the handler does not look at
\* r.ok() after the counts of buffer and image barriers.
StageMasks == Words(<<"srcStageMask", "dstStageMask", "dependencyFlags">>)
write_CmdPipelineBarrier ==
    Id("commandBuffer") \o StageMasks \o
    Word("memoryBarrierCount") \o Blobs("memoryBarrier", "memoryBarrierCount") \o
    Word("bufferBarrierCount") \o Each("bufferBarrierCount", write_BufferMemoryBarrier) \o
    Word("imageBarrierCount") \o Each("imageBarrierCount", write_ImageMemoryBarrier)
handle_CmdPipelineBarrier ==
    Into(StageMasks \o
         CountFits("memoryBarrierCount", 4) \o Ok \o Blobs("memoryBarrier", "memoryBarrierCount") \o
         CountFits("bufferBarrierCount", 4) \o Each("bufferBarrierCount", read_BufferMemoryBarrier) \o
         CountFits("imageBarrierCount", 4) \o Each("imageBarrierCount", read_ImageMemoryBarrier))

write_CopyRequests ==
    [CmdCopyBuffer |->
        Id("commandBuffer") \o Id("src") \o Id("dst") \o Word("regionCount") \o Blobs("bufferCopy", "regionCount"),
     CmdCopyBufferToImage |->
        Id("commandBuffer") \o Id("src") \o Id("dst") \o Words(<<"dstLayout", "regionCount">>) \o
        Blobs("bufferImageCopy", "regionCount"),
     CmdCopyImageToBuffer |->
        Id("commandBuffer") \o Id("src") \o Word("srcLayout") \o Id("dst") \o Word("regionCount") \o
        Blobs("bufferImageCopy", "regionCount"),
     CmdCopyImage |->
        Id("commandBuffer") \o Id("src") \o Word("srcLayout") \o Id("dst") \o
        Words(<<"dstLayout", "imageRegionCount">>) \o Blobs("imageCopy", "imageRegionCount")]
handle_CopyRequests ==
    [CmdCopyBuffer |->
        Into(Id("src") \o Patch("src") \o Id("dst") \o Patch("dst") \o
             CountFits("regionCount", 4) \o Ok \o Blobs("bufferCopy", "regionCount")),
     CmdCopyBufferToImage |->
        Into(Id("src") \o Patch("src") \o Id("dst") \o Patch("dst") \o Word("dstLayout") \o
             CountFits("regionCount", 4) \o Ok \o Blobs("bufferImageCopy", "regionCount")),
     CmdCopyImageToBuffer |->
        Into(Id("src") \o Patch("src") \o Word("srcLayout") \o Id("dst") \o Patch("dst") \o
             CountFits("regionCount", 4) \o Ok \o Blobs("bufferImageCopy", "regionCount")),
     CmdCopyImage |->
        Into(Id("src") \o Word("srcLayout") \o Id("dst") \o Word("dstLayout") \o
             CountFits("imageRegionCount", 4) \o In("imageRegionCount", Nat \ {0}) \o Ok \o
             Blobs("imageCopy", "imageRegionCount") \o Required("src") \o Required("dst"))]

\* unaligned stands for the low bits of dstOffset, which vkCmdFillBuffer and
\* vkCmdUpdateBuffer may not set; dataSize 0 for every size that may not be sent.
write_FillRequests ==
    [CmdBlitImage |->
        Id("commandBuffer") \o Id("src") \o Word("srcLayout") \o Id("dst") \o
        Words(<<"dstLayout", "imageRegionCount">>) \o Blobs("imageBlit", "imageRegionCount") \o Word("filter"),
     CmdFillBuffer |-> Id("commandBuffer") \o Id("dst") \o Wide("unaligned") \o Wide("size") \o Word("data"),
     CmdUpdateBuffer |->
        Id("commandBuffer") \o Id("dst") \o Wide("unaligned") \o Wide("dataSize") \o Data("pData", "dataSize"),
     CmdClearColorImage |->
        Id("commandBuffer") \o Id("image") \o Word("layout") \o Blob("color") \o
        Word("rangeCount") \o Blobs("range", "rangeCount")]
handle_FillRequests ==
    [CmdBlitImage |->
        Into(Id("src") \o Word("srcLayout") \o Id("dst") \o Word("dstLayout") \o
             CountFits("imageRegionCount", 4) \o In("imageRegionCount", Nat \ {0}) \o Ok \o
             Blobs("imageBlit", "imageRegionCount") \o Word("filter") \o Ok \o Required("src") \o Required("dst")),
     CmdFillBuffer |->
        Into(Id("dst") \o Wide("unaligned") \o Wide("size") \o Word("data") \o Ok \o
             Required("dst") \o In("unaligned", {0})),
     CmdUpdateBuffer |->
        Into(Id("dst") \o Wide("unaligned") \o Wide("dataSize") \o Data("pData", "dataSize") \o Ok \o
             Required("dst") \o In("unaligned", {0}) \o In("dataSize", Nat \ {0})),
     CmdClearColorImage |->
        Into(Id("image") \o Patch("image") \o Word("layout") \o Blob("color") \o
             CountFits("rangeCount", 4) \o Blobs("range", "rangeCount") \o Ok)]

-----------------------------------------------------------------------------
IndirectFields == Id("buffer") \o Wide("offset") \o Words(<<"drawCount", "stride">>)
IndirectCountFields ==
    Id("buffer") \o Wide("offset") \o Id("countBuffer") \o Wide("countBufferOffset") \o
    Words(<<"maxDrawCount", "stride">>)
write_IndirectRequests ==
    [CmdDrawIndirect |-> Id("commandBuffer") \o IndirectFields,
     CmdDrawIndexedIndirect |-> Id("commandBuffer") \o IndirectFields,
     CmdDrawIndirectCount |-> Id("commandBuffer") \o IndirectCountFields,
     CmdDrawIndexedIndirectCount |-> Id("commandBuffer") \o IndirectCountFields,
     CmdDispatchIndirect |-> Id("commandBuffer") \o Id("buffer") \o Wide("offset"),
     CmdExecuteCommands |-> Id("commandBuffer") \o Word("count") \o Ids("commandBuffers", "count")]
handle_IndirectRequests ==
    [CmdDrawIndirect |-> Into(IndirectFields \o Ok \o Required("buffer")),
     CmdDrawIndexedIndirect |-> Into(IndirectFields \o Ok \o Required("buffer")),
     CmdDrawIndirectCount |-> Into(IndirectCountFields \o Ok \o Required("buffer") \o Required("countBuffer")),
     CmdDrawIndexedIndirectCount |->
        Into(IndirectCountFields \o Ok \o Required("buffer") \o Required("countBuffer")),
     CmdDispatchIndirect |-> Into(Id("buffer") \o Wide("offset") \o Ok \o Required("buffer")),
     CmdExecuteCommands |->
        Into(CountBounded("count", 8) \o Each("count", Id("commandBuffers") \o Patch("commandBuffers")) \o Ok)]

\* Queries, events and dynamic state: some handles, then some words.
CopyQueryFields ==
    Id("queryPool") \o Words(<<"firstQuery", "queries">>) \o Id("buffer") \o
    Wide("offset") \o Wide("stride") \o Word("flags")
write_StateRequests ==
    [CmdBeginQuery |-> Id("commandBuffer") \o Id("queryPool") \o Words(<<"query", "flags">>),
     CmdEndQuery |-> Id("commandBuffer") \o Id("queryPool") \o Word("query"),
     CmdResetQueryPool |-> Id("commandBuffer") \o Id("queryPool") \o Words(<<"firstQuery", "queries">>),
     CmdWriteTimestamp |-> Id("commandBuffer") \o Word("stage") \o Id("queryPool") \o Word("query"),
     CmdCopyQueryPoolResults |-> Id("commandBuffer") \o CopyQueryFields,
     CmdSetEvent |-> Id("commandBuffer") \o Id("event") \o Word("stageMask"),
     CmdResetEvent |-> Id("commandBuffer") \o Id("event") \o Word("stageMask"),
     CmdSetLineWidth |-> Id("commandBuffer") \o Word("lineWidth"),
     CmdSetDepthBias |-> Id("commandBuffer") \o Words(<<"constantFactor", "clamp", "slopeFactor">>),
     CmdSetBlendConstants |-> Id("commandBuffer") \o Words(<<"red", "green", "blue", "alpha">>),
     CmdSetDepthBounds |-> Id("commandBuffer") \o Words(<<"minDepth", "maxDepth">>),
     CmdSetStencilCompareMask |-> Id("commandBuffer") \o Words(<<"faceMask", "mask">>),
     CmdSetStencilWriteMask |-> Id("commandBuffer") \o Words(<<"faceMask", "mask">>),
     CmdSetStencilReference |-> Id("commandBuffer") \o Words(<<"faceMask", "mask">>)]
handle_StateRequests ==
    [CmdBeginQuery |-> Into(Id("queryPool") \o Words(<<"query", "flags">>) \o Ok \o Required("queryPool")),
     CmdEndQuery |-> Into(Id("queryPool") \o Word("query") \o Ok \o Required("queryPool")),
     CmdResetQueryPool |->
        Into(Id("queryPool") \o Words(<<"firstQuery", "queries">>) \o Ok \o Required("queryPool")),
     CmdWriteTimestamp |-> Into(Word("stage") \o Id("queryPool") \o Word("query") \o Ok \o Required("queryPool")),
     CmdCopyQueryPoolResults |-> Into(CopyQueryFields \o Ok \o Required("queryPool") \o Required("buffer")),
     CmdSetEvent |-> Into(Id("event") \o Word("stageMask") \o Ok \o Required("event")),
     CmdResetEvent |-> Into(Id("event") \o Word("stageMask") \o Ok \o Required("event")),
     CmdSetLineWidth |-> Into(Word("lineWidth") \o Ok),
     CmdSetDepthBias |-> Into(Words(<<"constantFactor", "clamp", "slopeFactor">>) \o Ok),
     CmdSetBlendConstants |-> Into(Words(<<"red", "green", "blue", "alpha">>) \o Ok),
     CmdSetDepthBounds |-> Into(Words(<<"minDepth", "maxDepth">>) \o Ok),
     CmdSetStencilCompareMask |-> Into(Words(<<"faceMask", "mask">>) \o Ok),
     CmdSetStencilWriteMask |-> Into(Words(<<"faceMask", "mask">>) \o Ok),
     CmdSetStencilReference |-> Into(Words(<<"faceMask", "mask">>) \o Ok)]

Resolve3D ==
    Words(<<"srcAspect", "srcMipLevel", "srcBaseLayer", "srcLayerCount", "srcX", "srcY", "srcZ",
            "dstAspect", "dstMipLevel", "dstBaseLayer", "dstLayerCount", "dstX", "dstY", "dstZ",
            "width", "height", "depth">>)
SubresourceRange ==
    Words(<<"aspectMask", "baseMipLevel", "levelCount", "baseArrayLayer", "layerCount">>)
ClearRect == Words(<<"x", "y", "width", "height", "baseArrayLayer", "layerCount">>)
write_ImageRequests ==
    [CmdResolveImage |->
        Id("commandBuffer") \o Id("src") \o Word("srcLayout") \o Id("dst") \o
        Words(<<"dstLayout", "regionCount">>) \o Each("regionCount", Resolve3D),
     CmdClearDepthStencilImage |->
        Id("commandBuffer") \o Id("image") \o Words(<<"layout", "depth", "stencil", "rangeCount">>) \o
        Each("rangeCount", SubresourceRange),
     CmdClearAttachments |->
        Id("commandBuffer") \o Word("attachmentCount") \o
        Each("attachmentCount", Words(<<"aspectMask", "colorAttachment">>) \o Blob("clearValue")) \o
        Word("rectCount") \o Each("rectCount", ClearRect),
     CmdWaitEvents |->
        Id("commandBuffer") \o Word("eventCount") \o Ids("events", "eventCount") \o
        Words(<<"srcStageMask", "dstStageMask">>) \o
        Word("memoryBarrierCount") \o Blobs("memoryBarrier", "memoryBarrierCount") \o
        Word("bufferBarrierCount") \o Each("bufferBarrierCount", write_BufferMemoryBarrier) \o
        Word("imageBarrierCount") \o Each("imageBarrierCount", write_ImageMemoryBarrier)]
handle_ImageRequests ==
    [CmdResolveImage |->
        Into(Id("src") \o Word("srcLayout") \o Id("dst") \o Word("dstLayout") \o
             CountBounded("regionCount", 64) \o Each("regionCount", Resolve3D) \o Ok \o
             Required("src") \o Required("dst")),
     CmdClearDepthStencilImage |->
        Into(Id("image") \o Words(<<"layout", "depth", "stencil">>) \o CountBounded("rangeCount", 20) \o
             Each("rangeCount", SubresourceRange) \o Ok \o Required("image")),
     CmdClearAttachments |->
        Into(CountBounded("attachmentCount", 12) \o
             Each("attachmentCount", Words(<<"aspectMask", "colorAttachment">>) \o Blob("clearValue")) \o
             CountBounded("rectCount", 24) \o Each("rectCount", ClearRect) \o Ok),
     CmdWaitEvents |->
        Into(CountBounded("eventCount", 8) \o Each("eventCount", Id("events") \o Patch("events")) \o
             Words(<<"srcStageMask", "dstStageMask">>) \o
             CountBounded("memoryBarrierCount", 4) \o Blobs("memoryBarrier", "memoryBarrierCount") \o
             CountBounded("bufferBarrierCount", 4) \o Each("bufferBarrierCount", read_BufferMemoryBarrier) \o
             CountBounded("imageBarrierCount", 4) \o Each("imageBarrierCount", read_ImageMemoryBarrier) \o Ok)]

write_Synchronization2Requests ==
    [CmdPipelineBarrier2 |-> Id("commandBuffer") \o write_DependencyInfo,
     CmdSetEvent2 |-> Id("commandBuffer") \o Id("event") \o write_DependencyInfo,
     CmdResetEvent2 |-> Id("commandBuffer") \o Id("event") \o Wide("stageMask"),
     CmdWaitEvents2 |->
        Id("commandBuffer") \o Word("eventCount") \o Each("eventCount", Id("event") \o write_DependencyInfo),
     CmdWriteTimestamp2 |-> Id("commandBuffer") \o Wide("stage") \o Id("queryPool") \o Word("query")]
handle_Synchronization2Requests ==
    [CmdPipelineBarrier2 |-> Id("commandBuffer") \o Required("commandBuffer") \o read_DependencyInfo \o Ok \o End,
     CmdSetEvent2 |->
        Id("commandBuffer") \o Id("event") \o Required("commandBuffer") \o Required("event") \o
        read_DependencyInfo \o Ok \o End,
     CmdResetEvent2 |-> Into(Id("event") \o Wide("stageMask") \o Required("event") \o Ok \o End),
     CmdWaitEvents2 |->
        Id("commandBuffer") \o Word("eventCount") \o Required("commandBuffer") \o
        Limit("eventCount") \o Fits("eventCount", 12) \o
        Each("eventCount", Id("event") \o Required("event") \o read_DependencyInfo) \o Ok \o End,
     CmdWriteTimestamp2 |->
        Into(Wide("stage") \o Id("queryPool") \o Word("query") \o Required("queryPool") \o Ok \o End)]

\* valueWords is the size of the constants; 0 stands for every size or offset that
\* may not be sent.
write_CmdPushConstants ==
    In("layout", Handles) \o In("valueWords", Nat \ {0}) \o
    Id("commandBuffer") \o Id("layout") \o Words(<<"stageFlags", "offset">>) \o Raw("values", {"valueWords"}, {})
handle_CmdPushConstants ==
    Into(Id("layout") \o Words(<<"stageFlags", "offset">>) \o Raw("values", {"valueWords"}, {}) \o Ok \o End \o
         Required("layout") \o In("valueWords", Nat \ {0}))

-----------------------------------------------------------------------------
CommandWriters ==
    write_PoolRequests @@ write_RenderPassRequests @@ write_BindRequests @@ write_DrawRequests @@
    write_CopyRequests @@ write_FillRequests @@ write_IndirectRequests @@ write_StateRequests @@
    write_ImageRequests @@ write_Synchronization2Requests @@
    [CmdPipelineBarrier |-> write_CmdPipelineBarrier, CmdPushConstants |-> write_CmdPushConstants]
CommandHandlers ==
    handle_PoolRequests @@ handle_RenderPassRequests @@ handle_BindRequests @@ handle_DrawRequests @@
    handle_CopyRequests @@ handle_FillRequests @@ handle_IndirectRequests @@ handle_StateRequests @@
    handle_ImageRequests @@ handle_Synchronization2Requests @@
    [CmdPipelineBarrier |-> handle_CmdPipelineBarrier, CmdPushConstants |-> handle_CmdPushConstants]
=============================================================================
