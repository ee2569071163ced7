--------------------------- MODULE MarshalStructs ---------------------------
(* What write_X sends for the struct X, and what read_X does with it, for the
   structs of src/common/marshal.cpp; see module Wire for the language.  The two
   are separate functions there and separate definitions here: nothing but the
   order of their calls keeps them in step.                                   *)
EXTENDS PNextChains

SpecializationInfo == {"mapEntryCount", "dataSize"}
write_SpecializationInfo ==
    Raw("SpecializationInfo", SpecializationInfo, {}) \o
    Pods("pMapEntries", "mapEntryCount") \o Data("pData", "dataSize")
read_SpecializationInfo ==
    Raw("SpecializationInfo", SpecializationInfo, {}) \o
    Pods("pMapEntries", "mapEntryCount") \o Data("pData", "dataSize")

write_PipelineShaderStage ==
    Raw("PipelineShaderStage", {}, {"module"}) \o Text("pName") \o
    Opt("pSpecializationInfo", write_SpecializationInfo)
read_PipelineShaderStage ==
    Raw("PipelineShaderStage", {}, {"module"}) \o Text("pName") \o
    Opt("pSpecializationInfo", read_SpecializationInfo) \o Checked("module")

SubpassCounts == {"inputAttachmentCount", "colorAttachmentCount", "preserveAttachmentCount"}
write_SubpassDescription ==
    Raw("SubpassDescription", SubpassCounts, {}) \o
    Pods("pInputAttachments", "inputAttachmentCount") \o
    Pods("pColorAttachments", "colorAttachmentCount") \o
    OptPods("pResolveAttachments", "colorAttachmentCount") \o
    OptPod("pDepthStencilAttachment") \o
    Pods("pPreserveAttachments", "preserveAttachmentCount")
read_SubpassDescription ==
    Raw("SubpassDescription", SubpassCounts, {}) \o
    Pods("pInputAttachments", "inputAttachmentCount") \o
    Pods("pColorAttachments", "colorAttachmentCount") \o
    Limit("colorAttachmentCount") \o OptPods("pResolveAttachments", "colorAttachmentCount") \o
    OptPod("pDepthStencilAttachment") \o
    Pods("pPreserveAttachments", "preserveAttachmentCount")

write_DeviceQueueCreateInfo ==
    Raw("DeviceQueueCreateInfo", {"queueCount"}, {}) \o Pods("pQueuePriorities", "queueCount")
read_DeviceQueueCreateInfo ==
    Raw("DeviceQueueCreateInfo", {"queueCount"}, {}) \o Pods("pQueuePriorities", "queueCount")

DeviceCounts == {"queueCreateInfoCount", "enabledLayerCount", "enabledExtensionCount"}
write_DeviceCreateInfo ==
    Raw("DeviceCreateInfo", DeviceCounts, {}) \o Chain("pNext", "DeviceCreate") \o
    Each("queueCreateInfoCount", write_DeviceQueueCreateInfo) \o
    Texts("ppEnabledLayerNames", "enabledLayerCount") \o
    Texts("ppEnabledExtensionNames", "enabledExtensionCount") \o OptPod("pEnabledFeatures")
read_DeviceCreateInfo ==
    Raw("DeviceCreateInfo", DeviceCounts, {}) \o Chain("pNext", "DeviceCreate") \o
    Limit("queueCreateInfoCount") \o Each("queueCreateInfoCount", read_DeviceQueueCreateInfo) \o
    Texts("ppEnabledLayerNames", "enabledLayerCount") \o
    Texts("ppEnabledExtensionNames", "enabledExtensionCount") \o OptPod("pEnabledFeatures")

write_SwapchainCreateInfoKHR ==
    Raw("SwapchainCreateInfoKHR", {"queueFamilyIndexCount"}, {"surface", "oldSwapchain"}) \o
    Pods("pQueueFamilyIndices", "queueFamilyIndexCount")
\* Mutant: the swapchain being replaced is left as the client's id.
read_SwapchainKeepingOldId ==
    Raw("SwapchainCreateInfoKHR", {"queueFamilyIndexCount"}, {"surface", "oldSwapchain"}) \o
    Pods("pQueueFamilyIndices", "queueFamilyIndexCount") \o Patch("surface")
read_SwapchainCreateInfoKHR ==
    Raw("SwapchainCreateInfoKHR", {"queueFamilyIndexCount"}, {"surface", "oldSwapchain"}) \o
    Pods("pQueueFamilyIndices", "queueFamilyIndexCount") \o Patch("surface") \o Patch("oldSwapchain")

write_ImageViewCreateInfo == Raw("ImageViewCreateInfo", {}, {"image"}) \o Chain("pNext", "ImageViewCreate")
read_ImageViewCreateInfo ==
    Raw("ImageViewCreateInfo", {}, {"image"}) \o Chain("pNext", "ImageViewCreate") \o Patch("image")

RenderPassCounts == {"attachmentCount", "subpassCount", "dependencyCount"}
write_RenderPassCreateInfo ==
    Raw("RenderPassCreateInfo", RenderPassCounts, {}) \o Chain("pNext", "RenderPass") \o
    Pods("pAttachments", "attachmentCount") \o
    Each("subpassCount", write_SubpassDescription) \o Pods("pDependencies", "dependencyCount")
read_RenderPassCreateInfo ==
    Raw("RenderPassCreateInfo", RenderPassCounts, {}) \o Chain("pNext", "RenderPass") \o
    Pods("pAttachments", "attachmentCount") \o Limit("subpassCount") \o
    Each("subpassCount", read_SubpassDescription) \o Pods("pDependencies", "dependencyCount")

write_subpass_description2 ==
    Tag("SUBPASS_DESCRIPTION_2") \o Words(<<"subpassFlags", "pipelineBindPoint", "viewMask">>) \o
    Chain("subpassNext", "RenderPass2") \o
    Word("inputAttachmentCount") \o Each("inputAttachmentCount", AttachmentReference2) \o
    Word("colorAttachmentCount") \o Each("colorAttachmentCount", AttachmentReference2) \o
    Opt("pResolveAttachments", Each("colorAttachmentCount", AttachmentReference2)) \o
    Opt("pDepthStencilAttachment", AttachmentReference2) \o
    Word("preserveAttachmentCount") \o Each("preserveAttachmentCount", Word("preserveAttachment"))
read_subpass_description2 ==
    Tag("SUBPASS_DESCRIPTION_2") \o Words(<<"subpassFlags", "pipelineBindPoint", "viewMask">>) \o Ok \o
    Chain("subpassNext", "RenderPass2") \o
    CountIn("inputAttachmentCount") \o Fits("inputAttachmentCount", 16) \o
    Each("inputAttachmentCount", AttachmentReference2) \o
    CountIn("colorAttachmentCount") \o Fits("colorAttachmentCount", 16) \o
    Each("colorAttachmentCount", AttachmentReference2) \o
    Opt("pResolveAttachments", Each("colorAttachmentCount", AttachmentReference2)) \o
    Opt("pDepthStencilAttachment", AttachmentReference2) \o
    CountIn("preserveAttachmentCount") \o Fits("preserveAttachmentCount", 4) \o
    Each("preserveAttachmentCount", Word("preserveAttachment")) \o Ok

AttachmentDescription2 ==
    Tag("ATTACHMENT_DESCRIPTION_2") \o
    Words(<<"attachmentFlags", "format", "samples", "loadOp", "storeOp", "stencilLoadOp",
            "stencilStoreOp", "initialLayout", "finalLayout">>)
SubpassDependency2 ==
    Tag("SUBPASS_DEPENDENCY_2") \o
    Words(<<"srcSubpass", "dstSubpass", "srcStageMask", "dstStageMask", "srcAccessMask",
            "dstAccessMask", "dependencyFlags", "viewOffset">>)
write_RenderPassCreateInfo2 ==
    Tag("RENDER_PASS_CREATE_INFO_2") \o Word("flags") \o Chain("pNext", "RenderPass") \o
    Word("attachmentCount") \o Each("attachmentCount", AttachmentDescription2) \o
    Word("subpassCount") \o Each("subpassCount", write_subpass_description2) \o
    Word("dependencyCount") \o Each("dependencyCount", SubpassDependency2) \o
    Word("correlatedViewMaskCount") \o Each("correlatedViewMaskCount", Word("correlatedViewMask"))
read_RenderPassCreateInfo2 ==
    Tag("RENDER_PASS_CREATE_INFO_2") \o Word("flags") \o Ok \o Chain("pNext", "RenderPass") \o
    CountIn("attachmentCount") \o Fits("attachmentCount", 40) \o
    Each("attachmentCount", AttachmentDescription2 \o Ok) \o
    CountIn("subpassCount") \o Each("subpassCount", read_subpass_description2) \o
    CountIn("dependencyCount") \o Fits("dependencyCount", 36) \o
    Each("dependencyCount", SubpassDependency2 \o Ok) \o
    CountIn("correlatedViewMaskCount") \o Fits("correlatedViewMaskCount", 4) \o
    Each("correlatedViewMaskCount", Word("correlatedViewMask")) \o Ok

write_ShaderModuleCreateInfo ==
    In("codeWords", Nat \ {0}) \o Tag("SHADER_MODULE_CREATE_INFO") \o Word("flags") \o
    Chain("pNext", "ShaderModule") \o Wide("codeWords") \o Each("codeWords", Word("code"))
read_ShaderModuleCreateInfo ==
    Tag("SHADER_MODULE_CREATE_INFO") \o Word("flags") \o Ok \o Chain("pNext", "ShaderModule") \o
    Wide("codeWords") \o Ok \o In("codeWords", Nat \ {0}) \o Exactly("codeWords") \o
    Each("codeWords", Word("code")) \o Ok

PipelineLayoutCounts == {"setLayoutCount", "pushConstantRangeCount"}
write_PipelineLayoutCreateInfo ==
    Raw("PipelineLayoutCreateInfo", PipelineLayoutCounts, {}) \o
    Ids("pSetLayouts", "setLayoutCount") \o Pods("pPushConstantRanges", "pushConstantRangeCount")
read_PipelineLayoutCreateInfo ==
    Raw("PipelineLayoutCreateInfo", PipelineLayoutCounts, {}) \o
    PatchedIds("pSetLayouts", "setLayoutCount") \o Pods("pPushConstantRanges", "pushConstantRangeCount")

-----------------------------------------------------------------------------
(* maskWords is (rasterizationSamples + 31) / 32: 1, or 2 for 64 samples; 0 stands
   for a sample count that is not a power of two up to 64, which both sides refuse. *)
GraphicsHandles == {"layout", "renderPass", "basePipelineHandle"}
VertexCounts == {"vertexBindingCount", "vertexAttributeCount"}
write_GraphicsPipelineCreateInfo ==
    When("pMultisampleState", {1}, In("maskWords", {1, 2})) \o
    Raw("GraphicsPipelineCreateInfo", {"stageCount"}, GraphicsHandles) \o
    Each("stageCount", write_PipelineShaderStage) \o
    Opt("pVertexInputState",
        Raw("PipelineVertexInputState", VertexCounts, {}) \o
        Pods("pVertexBindings", "vertexBindingCount") \o Pods("pVertexAttributes", "vertexAttributeCount")) \o
    OptPod("pInputAssemblyState") \o OptPod("pTessellationState") \o
    Opt("pViewportState",
        Raw("PipelineViewportState", {"viewportCount", "scissorCount"}, {}) \o
        OptPods("pViewports", "viewportCount") \o OptPods("pScissors", "scissorCount")) \o
    OptPod("pRasterizationState") \o
    Opt("pMultisampleState",
        Raw("PipelineMultisampleState", {"maskWords"}, {}) \o OptPods("pSampleMask", "maskWords")) \o
    OptPod("pDepthStencilState") \o
    Opt("pColorBlendState",
        Raw("PipelineColorBlendState", {"blendAttachmentCount"}, {}) \o
        Pods("pBlendAttachments", "blendAttachmentCount")) \o
    Opt("pDynamicState",
        Raw("PipelineDynamicState", {"dynamicStateCount"}, {}) \o
        Pods("pDynamicStates", "dynamicStateCount")) \o
    Chain("pNext", "GraphicsPipeline") \o
    When("pTessellationState", {1}, Chain("tessellationNext", "TessellationState"))
read_GraphicsPipelineCreateInfo ==
    Raw("GraphicsPipelineCreateInfo", {"stageCount"}, GraphicsHandles) \o
    Ok \o Limit("stageCount") \o Fits("stageCount", 12) \o
    Each("stageCount", read_PipelineShaderStage) \o
    Opt("pVertexInputState",
        Raw("PipelineVertexInputState", VertexCounts, {}) \o
        Pods("pVertexBindings", "vertexBindingCount") \o Pods("pVertexAttributes", "vertexAttributeCount")) \o
    OptPod("pInputAssemblyState") \o OptPod("pTessellationState") \o
    Opt("pViewportState",
        Raw("PipelineViewportState", {"viewportCount", "scissorCount"}, {}) \o
        Limit("viewportCount") \o OptPods("pViewports", "viewportCount") \o
        Limit("scissorCount") \o OptPods("pScissors", "scissorCount")) \o
    OptPod("pRasterizationState") \o
    Opt("pMultisampleState",
        Raw("PipelineMultisampleState", {"maskWords"}, {}) \o In("maskWords", {1, 2}) \o
        OptPods("pSampleMask", "maskWords")) \o
    OptPod("pDepthStencilState") \o
    Opt("pColorBlendState",
        Raw("PipelineColorBlendState", {"blendAttachmentCount"}, {}) \o
        Pods("pBlendAttachments", "blendAttachmentCount")) \o
    Opt("pDynamicState",
        Raw("PipelineDynamicState", {"dynamicStateCount"}, {}) \o
        Pods("pDynamicStates", "dynamicStateCount")) \o
    Chain("pNext", "GraphicsPipeline") \o
    When("pTessellationState", {1}, Chain("tessellationNext", "TessellationState")) \o
    Checked("layout") \o Checked("renderPass") \o Checked("basePipelineHandle")

write_ComputePipelineCreateInfo ==
    Raw("ComputePipelineCreateInfo", {}, {"layout", "basePipelineHandle"}) \o write_PipelineShaderStage
read_ComputePipelineCreateInfo ==
    Raw("ComputePipelineCreateInfo", {}, {"layout", "basePipelineHandle"}) \o read_PipelineShaderStage \o
    Checked("layout") \o Checked("basePipelineHandle")

write_FramebufferCreateInfo ==
    Raw("FramebufferCreateInfo", {"attachmentCount", "imageless"}, {"renderPass"}) \o
    Chain("pNext", "FramebufferCreate") \o
    When("imageless", {0}, Ids("pAttachments", "attachmentCount"))
read_FramebufferCreateInfo ==
    Raw("FramebufferCreateInfo", {"attachmentCount", "imageless"}, {"renderPass"}) \o
    Chain("pNext", "FramebufferCreate") \o
    When("imageless", {0}, PatchedIds("pAttachments", "attachmentCount")) \o Patch("renderPass")

write_BufferViewCreateInfo ==
    In("pNext", {0}) \o Tag("BUFFER_VIEW_CREATE_INFO") \o Word("flags") \o Id("buffer") \o Word("format") \o
    Wide("offset") \o Wide("range")
read_BufferViewCreateInfo ==
    Tag("BUFFER_VIEW_CREATE_INFO") \o Word("flags") \o Id("buffer") \o Word("format") \o
    Wide("offset") \o Wide("range") \o Ok \o Required("buffer")

write_QueryPoolCreateInfo ==
    Tag("QUERY_POOL_CREATE_INFO") \o Words(<<"flags", "queryType", "queryCount", "pipelineStatistics", "hasNext">>)
read_QueryPoolCreateInfo ==
    Tag("QUERY_POOL_CREATE_INFO") \o
    Words(<<"flags", "queryType", "queryCount", "pipelineStatistics", "hasNext">>) \o Ok \o
    In("hasNext", {0}) \o In("queryCount", Nat \ {0}) \o Limit("queryCount")

write_EventCreateInfo == Tag("EVENT_CREATE_INFO") \o Words(<<"flags", "hasNext">>)
read_EventCreateInfo == Tag("EVENT_CREATE_INFO") \o Words(<<"flags", "hasNext">>) \o Ok \o In("hasNext", {0})

write_CommandBufferAllocateInfo == Raw("CommandBufferAllocateInfo", {"commandBufferCount"}, {"commandPool"})
read_CommandBufferAllocateInfo ==
    Raw("CommandBufferAllocateInfo", {"commandBufferCount"}, {"commandPool"}) \o
    Limit("commandBufferCount") \o Patch("commandPool")

write_CommandBufferBeginInfo ==
    Tag("COMMAND_BUFFER_BEGIN_INFO") \o Words(<<"flags", "hasNext">>) \o
    Opt("pInheritanceInfo",
        Tag("COMMAND_BUFFER_INHERITANCE_INFO") \o Word("inheritanceNext") \o
        Id("renderPass") \o Word("subpass") \o Id("framebuffer") \o
        Words(<<"occlusionQueryEnable", "queryFlags", "pipelineStatistics">>))
read_CommandBufferBeginInfo ==
    Tag("COMMAND_BUFFER_BEGIN_INFO") \o Words(<<"flags", "hasNext">>) \o
    Opt("pInheritanceInfo",
        In("hasNext", {0}) \o
        Tag("COMMAND_BUFFER_INHERITANCE_INFO") \o Word("inheritanceNext") \o
        Id("renderPass") \o Word("subpass") \o Id("framebuffer") \o
        Words(<<"occlusionQueryEnable", "queryFlags", "pipelineStatistics">>) \o Ok \o
        In("inheritanceNext", {0}) \o Checked("renderPass") \o Checked("framebuffer")) \o
    In("hasNext", {0})

write_RenderPassBeginInfo ==
    Raw("RenderPassBeginInfo", {"clearValueCount"}, {"renderPass", "framebuffer"}) \o
    Chain("pNext", "RenderPassBegin") \o Pods("pClearValues", "clearValueCount")
read_RenderPassBeginInfo ==
    Raw("RenderPassBeginInfo", {"clearValueCount"}, {"renderPass", "framebuffer"}) \o
    Chain("pNext", "RenderPassBegin") \o Pods("pClearValues", "clearValueCount") \o
    Patch("renderPass") \o Patch("framebuffer")

write_SubpassBeginInfo == Tag("SUBPASS_BEGIN_INFO") \o Word("contents") \o Chain("beginNext", "RenderPass2")
read_SubpassBeginInfo == Tag("SUBPASS_BEGIN_INFO") \o Word("contents") \o Ok \o Chain("beginNext", "RenderPass2")
write_SubpassEndInfo == Tag("SUBPASS_END_INFO") \o Chain("endNext", "RenderPass2")
read_SubpassEndInfo == Tag("SUBPASS_END_INFO") \o Ok \o Chain("endNext", "RenderPass2")

-----------------------------------------------------------------------------
write_DescriptorSetLayoutCreateInfo ==
    In("hasNext", {0}) \o In("updateAfterBind", {0}) \o
    Raw("DescriptorSetLayoutCreateInfo", {"bindingCount"}, {}) \o
    Each("bindingCount",
        Raw("DescriptorSetLayoutBinding", {"descriptorCount"}, {}) \o
        Opt("pImmutableSamplers", Ids("immutableSamplers", "descriptorCount")))
read_DescriptorSetLayoutCreateInfo ==
    Raw("DescriptorSetLayoutCreateInfo", {"bindingCount"}, {}) \o
    Limit("bindingCount") \o Fits("bindingCount", 4) \o
    Each("bindingCount",
        Raw("DescriptorSetLayoutBinding", {"descriptorCount"}, {}) \o
        Opt("pImmutableSamplers", PatchedIds("immutableSamplers", "descriptorCount")))

TemplateEntry ==
    Words(<<"dstBinding", "dstArrayElement", "descriptorCount", "descriptorType">>) \o
    Wide("offset") \o Wide("stride")
write_DescriptorUpdateTemplateCreateInfo ==
    In("hasNext", {0}) \o Tag("DESCRIPTOR_UPDATE_TEMPLATE_CREATE_INFO") \o Words(<<"flags", "entryCount">>) \o
    Each("entryCount", TemplateEntry) \o
    Word("templateType") \o Id("descriptorSetLayout") \o
    Word("pipelineBindPoint") \o Id("pipelineLayout") \o Word("set")
\* Mutant: an entry taken to be as large as the native struct.
read_UpdateTemplateNativeSize ==
    Tag("DESCRIPTOR_UPDATE_TEMPLATE_CREATE_INFO") \o Word("flags") \o
    CountIn("entryCount") \o Fits("entryCount", 48) \o Each("entryCount", TemplateEntry) \o
    Word("templateType") \o Id("descriptorSetLayout") \o Patch("descriptorSetLayout") \o
    Word("pipelineBindPoint") \o Id("pipelineLayout") \o Patch("pipelineLayout") \o Word("set") \o Ok
read_DescriptorUpdateTemplateCreateInfo ==
    Tag("DESCRIPTOR_UPDATE_TEMPLATE_CREATE_INFO") \o Word("flags") \o
    CountIn("entryCount") \o Fits("entryCount", 32) \o Each("entryCount", TemplateEntry) \o
    Word("templateType") \o Id("descriptorSetLayout") \o Patch("descriptorSetLayout") \o
    Word("pipelineBindPoint") \o Id("pipelineLayout") \o Patch("pipelineLayout") \o Word("set") \o Ok

YcbcrFields ==
    <<"format", "ycbcrModel", "ycbcrRange", "r", "g", "b", "a", "xChromaOffset", "yChromaOffset",
      "chromaFilter", "forceExplicitReconstruction">>
write_SamplerYcbcrConversionCreateInfo == Tag("SAMPLER_YCBCR_CONVERSION_CREATE_INFO") \o Words(YcbcrFields)
read_SamplerYcbcrConversionCreateInfo == Tag("SAMPLER_YCBCR_CONVERSION_CREATE_INFO") \o Words(YcbcrFields) \o Ok

write_DescriptorPoolCreateInfo ==
    In("hasNext", {0}) \o In("updateAfterBind", {0}) \o
    Raw("DescriptorPoolCreateInfo", {"poolSizeCount"}, {}) \o Pods("pPoolSizes", "poolSizeCount")
read_DescriptorPoolCreateInfo ==
    Raw("DescriptorPoolCreateInfo", {"poolSizeCount"}, {}) \o Pods("pPoolSizes", "poolSizeCount")

write_DescriptorSetAllocateInfo ==
    In("hasNext", {0}) \o
    Raw("DescriptorSetAllocateInfo", {"descriptorSetCount"}, {"descriptorPool"}) \o
    Ids("pSetLayouts", "descriptorSetCount")
read_DescriptorSetAllocateInfo ==
    Raw("DescriptorSetAllocateInfo", {"descriptorSetCount"}, {"descriptorPool"}) \o
    Limit("descriptorSetCount") \o
    Each("descriptorSetCount", Id("pSetLayouts") \o Ok \o Required("pSetLayouts")) \o
    Required("descriptorPool")

\* The descriptor types by what they are made of; "other" stands for every type
\* that neither side has a case for.
SamplerTypes == {"SAMPLER", "COMBINED_IMAGE_SAMPLER"}
ViewTypes == {"COMBINED_IMAGE_SAMPLER", "IMAGE"}
ImageTypes == SamplerTypes \cup ViewTypes
DescriptorTypes == ImageTypes \cup {"BUFFER", "TEXEL_BUFFER"}
Handles == {"live", "stale"}

write_WriteDescriptorSet ==
    In("dstSet", Handles) \o In("descriptorType", DescriptorTypes) \o
    Raw("WriteDescriptorSet", {"descriptorCount", "descriptorType"}, {"dstSet"}) \o
    When("descriptorType", ImageTypes,
        Tag("1") \o
        Each("descriptorCount",
            When("descriptorType", SamplerTypes, In("sampler", Handles) \o Id("sampler")) \o
            When("descriptorType", ImageTypes \ SamplerTypes, Wide("0")) \o
            When("descriptorType", ViewTypes, In("imageView", Handles) \o Id("imageView")) \o
            When("descriptorType", ImageTypes \ ViewTypes, Wide("0")) \o Word("imageLayout"))) \o
    When("descriptorType", {"BUFFER"},
        Tag("2") \o
        Each("descriptorCount", In("buffer", Handles) \o Id("buffer") \o Wide("offset") \o Wide("range"))) \o
    When("descriptorType", {"TEXEL_BUFFER"},
        Tag("3") \o Each("descriptorCount", In("bufferView", Handles) \o Id("bufferView")))
read_WriteDescriptorSet ==
    Raw("WriteDescriptorSet", {"descriptorCount", "descriptorType"}, {"dstSet"}) \o
    Limit("descriptorCount") \o In("descriptorType", DescriptorTypes) \o
    When("descriptorType", ImageTypes,
        Tag("1") \o Ok \o
        Each("descriptorCount",
            When("descriptorType", SamplerTypes, Id("sampler")) \o
            When("descriptorType", ImageTypes \ SamplerTypes, Wide("0")) \o
            When("descriptorType", ViewTypes, Id("imageView")) \o
            When("descriptorType", ImageTypes \ ViewTypes, Wide("0")) \o Word("imageLayout") \o Ok \o
            When("descriptorType", SamplerTypes, Required("sampler")) \o
            When("descriptorType", ViewTypes, Required("imageView")))) \o
    When("descriptorType", {"BUFFER"},
        Tag("2") \o Ok \o
        Each("descriptorCount",
            Id("buffer") \o Wide("offset") \o Wide("range") \o Ok \o Required("buffer"))) \o
    When("descriptorType", {"TEXEL_BUFFER"},
        Tag("3") \o Ok \o Each("descriptorCount", Id("bufferView") \o Ok \o Required("bufferView"))) \o
    Required("dstSet")

write_CopyDescriptorSet == Raw("CopyDescriptorSet", {}, {"srcSet", "dstSet"})
read_CopyDescriptorSet ==
    Raw("CopyDescriptorSet", {}, {"srcSet", "dstSet"}) \o Required("srcSet") \o Required("dstSet")

\* The barriers of Vulkan 1.0: a handle nobody knows is passed on as null.
write_ImageMemoryBarrier == Raw("ImageMemoryBarrier", {}, {"image"})
read_ImageMemoryBarrier == Raw("ImageMemoryBarrier", {}, {"image"}) \o Patch("image")
write_BufferMemoryBarrier == Raw("BufferMemoryBarrier", {}, {"buffer"})
read_BufferMemoryBarrier == Raw("BufferMemoryBarrier", {}, {"buffer"}) \o Patch("buffer")

\* The bytes of one element, from the packed structs.
kMemoryBarrier2WireBytes == 32
kBufferMemoryBarrier2WireBytes == 64
kImageMemoryBarrier2WireBytes == 76
kSemaphoreSubmitInfoWireBytes == 28
kCommandBufferSubmitInfoWireBytes == 12

Masks == Wide("srcStageMask") \o Wide("srcAccessMask") \o Wide("dstStageMask") \o Wide("dstAccessMask")
QueueFamilies == Words(<<"srcQueueFamilyIndex", "dstQueueFamilyIndex">>)
BufferBarrier2 == Masks \o QueueFamilies \o Id("buffer") \o Wide("offset") \o Wide("size")
ImageBarrier2 ==
    Masks \o Words(<<"oldLayout", "newLayout">>) \o QueueFamilies \o Id("image") \o
    Words(<<"aspectMask", "baseMipLevel", "levelCount", "baseArrayLayer", "layerCount">>)
write_DependencyInfo ==
    In("hasNext", {0}) \o Words(<<"dependencyFlags", "memoryBarrierCount">>) \o
    Each("memoryBarrierCount", Masks) \o
    Word("bufferBarrierCount") \o Each("bufferBarrierCount", BufferBarrier2) \o
    Word("imageBarrierCount") \o Each("imageBarrierCount", ImageBarrier2)
\* Mutant: the reader returns true without a last look at r.ok().
read_DependencyInfoUnchecked ==
    Words(<<"dependencyFlags", "memoryBarrierCount">>) \o
    Limit("memoryBarrierCount") \o Fits("memoryBarrierCount", kMemoryBarrier2WireBytes) \o
    Each("memoryBarrierCount", Masks) \o
    Word("bufferBarrierCount") \o Limit("bufferBarrierCount") \o
    Each("bufferBarrierCount", BufferBarrier2 \o Checked("buffer")) \o
    Word("imageBarrierCount") \o Limit("imageBarrierCount") \o
    Each("imageBarrierCount", ImageBarrier2 \o Checked("image"))
read_DependencyInfo ==
    Words(<<"dependencyFlags", "memoryBarrierCount">>) \o
    Limit("memoryBarrierCount") \o Fits("memoryBarrierCount", kMemoryBarrier2WireBytes) \o
    Each("memoryBarrierCount", Masks) \o
    Word("bufferBarrierCount") \o
    Limit("bufferBarrierCount") \o Fits("bufferBarrierCount", kBufferMemoryBarrier2WireBytes) \o
    Each("bufferBarrierCount", BufferBarrier2 \o Checked("buffer")) \o
    Word("imageBarrierCount") \o
    Limit("imageBarrierCount") \o Fits("imageBarrierCount", kImageMemoryBarrier2WireBytes) \o
    Each("imageBarrierCount", ImageBarrier2 \o Checked("image")) \o Ok

SemaphoreSubmit(s) == Id(s) \o Wide("value") \o Wide("stageMask") \o Word("deviceIndex")
write_SubmitInfo2 ==
    In("hasNext", {0}) \o Words(<<"flags", "waitCount">>) \o
    Each("waitCount", SemaphoreSubmit("waitSemaphore")) \o
    Word("commandBufferCount") \o Each("commandBufferCount", Id("commandBuffer") \o Word("deviceMask")) \o
    Word("signalCount") \o Each("signalCount", SemaphoreSubmit("signalSemaphore"))
read_SubmitInfo2 ==
    Words(<<"flags", "waitCount">>) \o
    Limit("waitCount") \o Fits("waitCount", kSemaphoreSubmitInfoWireBytes) \o
    Each("waitCount", SemaphoreSubmit("waitSemaphore") \o Checked("waitSemaphore")) \o
    Word("commandBufferCount") \o
    Limit("commandBufferCount") \o Fits("commandBufferCount", kCommandBufferSubmitInfoWireBytes) \o
    Each("commandBufferCount", Id("commandBuffer") \o Word("deviceMask") \o Checked("commandBuffer")) \o
    Word("signalCount") \o
    Limit("signalCount") \o Fits("signalCount", kSemaphoreSubmitInfoWireBytes) \o
    Each("signalCount", SemaphoreSubmit("signalSemaphore") \o Checked("signalSemaphore")) \o Ok

-----------------------------------------------------------------------------
write_BufferCreateInfo ==
    Raw("BufferCreateInfo", {"queueFamilyIndexCount"}, {}) \o Chain("pNext", "BufferCreate") \o
    Pods("pQueueFamilyIndices", "queueFamilyIndexCount")
read_BufferCreateInfo ==
    Raw("BufferCreateInfo", {"queueFamilyIndexCount"}, {}) \o Chain("pNext", "BufferCreate") \o
    Pods("pQueueFamilyIndices", "queueFamilyIndexCount")
write_ImageCreateInfo ==
    Raw("ImageCreateInfo", {"queueFamilyIndexCount"}, {}) \o Chain("pNext", "ImageCreate") \o
    Pods("pQueueFamilyIndices", "queueFamilyIndexCount")
read_ImageCreateInfo ==
    Raw("ImageCreateInfo", {"queueFamilyIndexCount"}, {}) \o Chain("pNext", "ImageCreate") \o
    Pods("pQueueFamilyIndices", "queueFamilyIndexCount")
write_MemoryAllocateInfo == Raw("MemoryAllocateInfo", {}, {}) \o Chain("pNext", "MemoryAllocate")
read_MemoryAllocateInfo == Raw("MemoryAllocateInfo", {}, {}) \o Chain("pNext", "MemoryAllocate")
write_SamplerCreateInfo == Raw("SamplerCreateInfo", {}, {}) \o Chain("pNext", "SamplerCreate")
read_SamplerCreateInfo == Raw("SamplerCreateInfo", {}, {}) \o Chain("pNext", "SamplerCreate")
write_SemaphoreCreateInfo == Raw("SemaphoreCreateInfo", {}, {}) \o Chain("pNext", "SemaphoreCreate")
read_SemaphoreCreateInfo == Raw("SemaphoreCreateInfo", {}, {}) \o Chain("pNext", "SemaphoreCreate")
write_PipelineCacheCreateInfo ==
    Raw("PipelineCacheCreateInfo", {"initialDataSize"}, {}) \o Data("pInitialData", "initialDataSize")
read_PipelineCacheCreateInfo ==
    Raw("PipelineCacheCreateInfo", {"initialDataSize"}, {}) \o Data("pInitialData", "initialDataSize")

\* Fences, command pools, the regions of a copy and the other structs that are one
\* blob without a pointer.
write_Plain == Raw("Plain", {}, {})
read_Plain == Raw("Plain", {}, {})

-----------------------------------------------------------------------------
(* Replies, read by the client. *)

\* The fields of VkPhysicalDeviceLimits: both sides expand the same four lists, of
\* which one field of each kind is kept here.
LimitFields == Word("limitsU32") \o Wide("limitsU64") \o Word("limitsF32") \o
    Words(<<"maxComputeWorkGroupCount", "maxComputeWorkGroupSize", "maxViewportDimensions",
            "viewportBoundsRange">>)
TexelFields ==
    Words(<<"minTexelOffset", "minTexelGatherOffset", "pointSizeRange", "lineWidthRange", "sparseU32">>)
DeviceFields == Words(<<"apiVersion", "driverVersion", "vendorID", "deviceID", "deviceType">>)

write_PhysicalDeviceProperties ==
    DeviceFields \o Blob("deviceName") \o Blob("pipelineCacheUUID") \o
    LimitFields \o Wide("minMemoryMapAlignment") \o TexelFields
read_PhysicalDeviceProperties ==
    DeviceFields \o Blob("deviceName") \o Blob("pipelineCacheUUID") \o
    LimitFields \o Wide("minMemoryMapAlignment") \o TexelFields \o Ok

write_PhysicalDeviceMemoryProperties ==
    Word("memoryTypeCount") \o Each("memoryTypeCount", Words(<<"propertyFlags", "heapIndex">>)) \o
    Word("memoryHeapCount") \o Each("memoryHeapCount", Wide("size") \o Word("flags"))
read_PhysicalDeviceMemoryProperties ==
    CountIn("memoryTypeCount") \o Fits("memoryTypeCount", 8) \o
    Each("memoryTypeCount", Words(<<"propertyFlags", "heapIndex">>)) \o
    CountIn("memoryHeapCount") \o Fits("memoryHeapCount", 12) \o
    Each("memoryHeapCount", Wide("size") \o Word("flags")) \o Ok

Granularity == <<"granularityWidth", "granularityHeight", "granularityDepth">>
write_FormatProperties == Words(<<"linearTiling", "optimalTiling", "bufferFeatures">>)
read_FormatProperties == Words(<<"linearTiling", "optimalTiling", "bufferFeatures">>) \o Ok
write_ImageFormatProperties ==
    Words(<<"width", "height", "depth", "maxMipLevels", "maxArrayLayers", "sampleCounts">>) \o
    Wide("maxResourceSize")
read_ImageFormatProperties ==
    Words(<<"width", "height", "depth", "maxMipLevels", "maxArrayLayers", "sampleCounts">>) \o
    Wide("maxResourceSize") \o Ok
write_QueueFamilyProperties == Words(<<"queueFlags", "queueCount", "timestampValidBits">> \o Granularity)
read_QueueFamilyProperties == Words(<<"queueFlags", "queueCount", "timestampValidBits">> \o Granularity) \o Ok
write_SparseImageFormatProperties == Words(<<"aspectMask">> \o Granularity \o <<"flags">>)
read_SparseImageFormatProperties == Words(<<"aspectMask">> \o Granularity \o <<"flags">>) \o Ok
write_ExtensionProperties == Text("extensionName") \o Word("specVersion")
read_ExtensionProperties == Text("extensionName") \o Word("specVersion") \o Ok
write_SurfaceFormatKHR == Words(<<"format", "colorSpace">>)
read_SurfaceFormatKHR == Words(<<"format", "colorSpace">>) \o Ok

-----------------------------------------------------------------------------
Codec(w, r) == [w |-> w, r |-> r]
Structs ==
    [DeviceCreateInfo |-> Codec(write_DeviceCreateInfo, read_DeviceCreateInfo),
     SwapchainCreateInfoKHR |-> Codec(write_SwapchainCreateInfoKHR, read_SwapchainCreateInfoKHR),
     ImageViewCreateInfo |-> Codec(write_ImageViewCreateInfo, read_ImageViewCreateInfo),
     RenderPassCreateInfo |-> Codec(write_RenderPassCreateInfo, read_RenderPassCreateInfo),
     RenderPassCreateInfo2 |-> Codec(write_RenderPassCreateInfo2, read_RenderPassCreateInfo2),
     ShaderModuleCreateInfo |-> Codec(write_ShaderModuleCreateInfo, read_ShaderModuleCreateInfo),
     PipelineLayoutCreateInfo |-> Codec(write_PipelineLayoutCreateInfo, read_PipelineLayoutCreateInfo),
     GraphicsPipelineCreateInfo |-> Codec(write_GraphicsPipelineCreateInfo, read_GraphicsPipelineCreateInfo),
     ComputePipelineCreateInfo |-> Codec(write_ComputePipelineCreateInfo, read_ComputePipelineCreateInfo),
     FramebufferCreateInfo |-> Codec(write_FramebufferCreateInfo, read_FramebufferCreateInfo),
     BufferViewCreateInfo |-> Codec(write_BufferViewCreateInfo, read_BufferViewCreateInfo),
     QueryPoolCreateInfo |-> Codec(write_QueryPoolCreateInfo, read_QueryPoolCreateInfo),
     EventCreateInfo |-> Codec(write_EventCreateInfo, read_EventCreateInfo),
     CommandBufferAllocateInfo |-> Codec(write_CommandBufferAllocateInfo, read_CommandBufferAllocateInfo),
     CommandBufferBeginInfo |-> Codec(write_CommandBufferBeginInfo, read_CommandBufferBeginInfo),
     RenderPassBeginInfo |-> Codec(write_RenderPassBeginInfo, read_RenderPassBeginInfo),
     SubpassBeginInfo |-> Codec(write_SubpassBeginInfo, read_SubpassBeginInfo),
     SubpassEndInfo |-> Codec(write_SubpassEndInfo, read_SubpassEndInfo),
     DescriptorSetLayoutCreateInfo |->
        Codec(write_DescriptorSetLayoutCreateInfo, read_DescriptorSetLayoutCreateInfo),
     DescriptorUpdateTemplateCreateInfo |->
        Codec(write_DescriptorUpdateTemplateCreateInfo, read_DescriptorUpdateTemplateCreateInfo),
     SamplerYcbcrConversionCreateInfo |->
        Codec(write_SamplerYcbcrConversionCreateInfo, read_SamplerYcbcrConversionCreateInfo),
     DescriptorPoolCreateInfo |-> Codec(write_DescriptorPoolCreateInfo, read_DescriptorPoolCreateInfo),
     DescriptorSetAllocateInfo |-> Codec(write_DescriptorSetAllocateInfo, read_DescriptorSetAllocateInfo),
     WriteDescriptorSet |-> Codec(write_WriteDescriptorSet, read_WriteDescriptorSet),
     CopyDescriptorSet |-> Codec(write_CopyDescriptorSet, read_CopyDescriptorSet),
     ImageMemoryBarrier |-> Codec(write_ImageMemoryBarrier, read_ImageMemoryBarrier),
     BufferMemoryBarrier |-> Codec(write_BufferMemoryBarrier, read_BufferMemoryBarrier),
     DependencyInfo |-> Codec(write_DependencyInfo, read_DependencyInfo),
     SubmitInfo2 |-> Codec(write_SubmitInfo2, read_SubmitInfo2),
     BufferCreateInfo |-> Codec(write_BufferCreateInfo, read_BufferCreateInfo),
     ImageCreateInfo |-> Codec(write_ImageCreateInfo, read_ImageCreateInfo),
     MemoryAllocateInfo |-> Codec(write_MemoryAllocateInfo, read_MemoryAllocateInfo),
     SamplerCreateInfo |-> Codec(write_SamplerCreateInfo, read_SamplerCreateInfo),
     SemaphoreCreateInfo |-> Codec(write_SemaphoreCreateInfo, read_SemaphoreCreateInfo),
     PipelineCacheCreateInfo |-> Codec(write_PipelineCacheCreateInfo, read_PipelineCacheCreateInfo),
     Plain |-> Codec(write_Plain, read_Plain),
     PhysicalDeviceProperties |-> Codec(write_PhysicalDeviceProperties, read_PhysicalDeviceProperties),
     PhysicalDeviceMemoryProperties |->
        Codec(write_PhysicalDeviceMemoryProperties, read_PhysicalDeviceMemoryProperties),
     FormatProperties |-> Codec(write_FormatProperties, read_FormatProperties),
     ImageFormatProperties |-> Codec(write_ImageFormatProperties, read_ImageFormatProperties),
     QueueFamilyProperties |-> Codec(write_QueueFamilyProperties, read_QueueFamilyProperties),
     SparseImageFormatProperties |->
        Codec(write_SparseImageFormatProperties, read_SparseImageFormatProperties),
     ExtensionProperties |-> Codec(write_ExtensionProperties, read_ExtensionProperties),
     SurfaceFormatKHR |-> Codec(write_SurfaceFormatKHR, read_SurfaceFormatKHR)]
=============================================================================
