----------------------------- MODULE PNextChains -----------------------------
(* The pNext nodes that may cross the wire (src/common/marshal.cpp): which types
   each context allows, which have a size, a writer, a reader and a case of their
   own where a caller's output chain is filled in.  These are five tables kept by
   hand; that they agree is what module Codec checks.  The names of the types
   leave out VK_STRUCTURE_TYPE_ and PHYSICAL_DEVICE_.                         *)
EXTENDS Wire, TLC

\* Features a server cannot keep its promise about (extension_contract.hpp): what
\* changes the number of descriptors or updates them in use, and what needs an
\* address to mean the same in another process.
DescriptorIndexingHidden ==
    {"uniformBufferUpdateAfterBind", "sampledImageUpdateAfterBind", "storageImageUpdateAfterBind",
     "storageBufferUpdateAfterBind", "uniformTexelBufferUpdateAfterBind",
     "storageTexelBufferUpdateAfterBind", "updateUnusedWhilePending", "partiallyBound",
     "variableDescriptorCount", "runtimeDescriptorArray"}
BufferAddressHidden == {"bufferDeviceAddressCaptureReplay", "bufferDeviceAddressMultiDevice"}
Vulkan12Hidden == DescriptorIndexingHidden \cup BufferAddressHidden

\* Mutant: the policy is not applied before the features are written.
Unmasked(fs, hidden) == fs
Mask(fs, hidden) == [i \in 1..Len(fs) |-> IF fs[i] \in hidden THEN "FALSE" ELSE fs[i]]

DescriptorIndexingFields ==
    <<"shaderArrayDynamicIndexing", "shaderArrayNonUniformIndexing",
      "uniformBufferUpdateAfterBind", "sampledImageUpdateAfterBind", "storageImageUpdateAfterBind",
      "storageBufferUpdateAfterBind", "uniformTexelBufferUpdateAfterBind",
      "storageTexelBufferUpdateAfterBind", "updateUnusedWhilePending", "partiallyBound",
      "variableDescriptorCount", "runtimeDescriptorArray">>
Vulkan12Fields ==
    <<"samplerMirrorClampToEdge">> \o DescriptorIndexingFields \o
    <<"imagelessFramebuffer", "separateDepthStencilLayouts", "hostQueryReset", "timelineSemaphore",
      "bufferDeviceAddress", "bufferDeviceAddressCaptureReplay", "bufferDeviceAddressMultiDevice">>

FeatureNodes ==
    {"FRAGMENT_SHADING_RATE_FEATURES", "IMAGELESS_FRAMEBUFFER_FEATURES", "MULTIVIEW_FEATURES",
     "VULKAN_1_1_FEATURES", "VULKAN_1_2_FEATURES", "HOST_QUERY_RESET_FEATURES",
     "TIMELINE_SEMAPHORE_FEATURES", "SYNCHRONIZATION_2_FEATURES", "BUFFER_DEVICE_ADDRESS_FEATURES",
     "DESCRIPTOR_INDEXING_FEATURES", "SEPARATE_DEPTH_STENCIL_LAYOUTS_FEATURES",
     "PROTECTED_MEMORY_FEATURES", "SAMPLER_YCBCR_CONVERSION_FEATURES"}
PropertyNodes ==
    {"FRAGMENT_SHADING_RATE_PROPERTIES", "MULTIVIEW_PROPERTIES", "POINT_CLIPPING_PROPERTIES",
     "VULKAN_1_1_PROPERTIES", "VULKAN_1_2_PROPERTIES", "TIMELINE_SEMAPHORE_PROPERTIES",
     "DEPTH_STENCIL_RESOLVE_PROPERTIES", "DESCRIPTOR_INDEXING_PROPERTIES", "SUBGROUP_PROPERTIES",
     "ID_PROPERTIES", "PROTECTED_MEMORY_PROPERTIES", "MAINTENANCE_3_PROPERTIES"}

pnext_allowed ==
    [QueryFeaturesOutput |-> FeatureNodes,
     ImageFormatPropertiesOutput |-> {"SAMPLER_YCBCR_CONVERSION_IMAGE_FORMAT_PROPERTIES"},
     QueryPropertiesOutput |-> PropertyNodes,
     DeviceCreate |-> FeatureNodes \cup {"FEATURES_2"},
     RenderPass |-> {"RENDER_PASS_INPUT_ATTACHMENT_ASPECT", "RENDER_PASS_MULTIVIEW"},
     RenderPass2 |-> {"FRAGMENT_SHADING_RATE_ATTACHMENT_INFO"},
     GraphicsPipeline |-> {"PIPELINE_FRAGMENT_SHADING_RATE_STATE"},
     TessellationState |-> {"TESSELLATION_DOMAIN_ORIGIN_STATE"},
     ImageCreate |-> {"IMAGE_FORMAT_LIST"},
     ImageViewCreate |-> {"IMAGE_VIEW_USAGE", "SAMPLER_YCBCR_CONVERSION_INFO"},
     SamplerCreate |-> {"SAMPLER_YCBCR_CONVERSION_INFO"},
     MemoryRequirements2 |-> {"IMAGE_PLANE_MEMORY_REQUIREMENTS_INFO", "MEMORY_DEDICATED_REQUIREMENTS"},
     BindBufferMemory2 |-> {},
     BindImageMemory2 |-> {"BIND_IMAGE_PLANE_MEMORY_INFO"},
     DescriptorSetLayoutSupport |-> {},
     FramebufferCreate |-> {"FRAMEBUFFER_ATTACHMENTS"},
     RenderPassBegin |-> {"RENDER_PASS_ATTACHMENT_BEGIN"},
     SemaphoreCreate |-> {"SEMAPHORE_TYPE"},
     Submit |-> {"TIMELINE_SEMAPHORE_SUBMIT"},
     BufferCreate |-> {"BUFFER_OPAQUE_CAPTURE_ADDRESS"},
     MemoryAllocate |-> {"MEMORY_ALLOCATE_FLAGS"},
     ShaderModule |-> {}]

\* The types pnext_node_size has a case for; any other has size 0 and is refused.
pnext_node_size ==
    FeatureNodes \cup PropertyNodes \cup
    {"FEATURES_2", "RENDER_PASS_INPUT_ATTACHMENT_ASPECT", "RENDER_PASS_MULTIVIEW",
     "FRAGMENT_SHADING_RATE_ATTACHMENT_INFO", "PIPELINE_FRAGMENT_SHADING_RATE_STATE",
     "TESSELLATION_DOMAIN_ORIGIN_STATE", "IMAGE_FORMAT_LIST", "IMAGE_VIEW_USAGE",
     "SAMPLER_YCBCR_CONVERSION_INFO", "SAMPLER_YCBCR_CONVERSION_IMAGE_FORMAT_PROPERTIES",
     "IMAGE_PLANE_MEMORY_REQUIREMENTS_INFO", "MEMORY_DEDICATED_REQUIREMENTS",
     "BIND_IMAGE_PLANE_MEMORY_INFO", "FRAMEBUFFER_ATTACHMENTS", "RENDER_PASS_ATTACHMENT_BEGIN",
     "SEMAPHORE_TYPE", "TIMELINE_SEMAPHORE_SUBMIT", "BUFFER_OPAQUE_CAPTURE_ADDRESS",
     "MEMORY_ALLOCATE_FLAGS"}

\* The types apply_pnext_output_values copies into the caller's chain; it refuses
\* the reply when it meets any other.
CopyOutput ==
    FeatureNodes \cup PropertyNodes \cup
    {"MEMORY_DEDICATED_REQUIREMENTS", "SAMPLER_YCBCR_CONVERSION_IMAGE_FORMAT_PROPERTIES"}

-----------------------------------------------------------------------------
Extent(w, h) == Words(<<w, h>>)
AttachmentReference2 == Tag("ATTACHMENT_REFERENCE_2") \o Words(<<"attachment", "layout", "aspectMask">>)
\* The same list of fields on both sides.
ShadingRateProperties ==
    Extent("minTexelWidth", "minTexelHeight") \o Extent("maxTexelWidth", "maxTexelHeight") \o
    Words(<<"maxTexelSizeAspectRatio", "multipleViewports", "layeredAttachments", "nonTrivialCombinerOps">>) \o
    Extent("maxFragmentWidth", "maxFragmentHeight") \o
    Words(<<"maxFragmentSizeAspectRatio", "coverageSamples", "rasterizationSamples", "depthStencilWrites",
            "sampleMask", "shaderSampleMask", "conservativeRasterization", "shaderInterlock",
            "customSampleLocations", "strictMultiplyCombiner">>)
Uuids == Blob("deviceUUID") \o Blob("driverUUID") \o Blob("deviceLUID")

\* Nodes without counts or handles: the writer's order.
WriteFeatureNode ==
    [FEATURES_2 |-> Word("features"),
     VULKAN_1_1_FEATURES |->
        Words(<<"FALSE", "FALSE", "FALSE", "FALSE", "multiview", "multiviewGeometryShader",
                "multiviewTessellationShader", "FALSE", "FALSE", "FALSE", "samplerYcbcrConversion", "FALSE">>),
     VULKAN_1_2_FEATURES |-> Words(Mask(Vulkan12Fields, Vulkan12Hidden)),
     HOST_QUERY_RESET_FEATURES |-> Word("hostQueryReset"),
     TIMELINE_SEMAPHORE_FEATURES |-> Word("timelineSemaphore"),
     SYNCHRONIZATION_2_FEATURES |-> Word("synchronization2"),
     BUFFER_DEVICE_ADDRESS_FEATURES |->
        Words(Mask(<<"bufferDeviceAddress", "bufferDeviceAddressCaptureReplay",
                     "bufferDeviceAddressMultiDevice">>, BufferAddressHidden)),
     DESCRIPTOR_INDEXING_FEATURES |-> Words(Mask(DescriptorIndexingFields, DescriptorIndexingHidden)),
     SEPARATE_DEPTH_STENCIL_LAYOUTS_FEATURES |-> Word("separateDepthStencilLayouts"),
     PROTECTED_MEMORY_FEATURES |-> Word("FALSE"),
     SAMPLER_YCBCR_CONVERSION_FEATURES |-> Word("samplerYcbcrConversion"),
     FRAGMENT_SHADING_RATE_FEATURES |-> Words(<<"pipelineRate", "primitiveRate", "attachmentRate">>),
     IMAGELESS_FRAMEBUFFER_FEATURES |-> Word("imagelessFramebuffer"),
     MULTIVIEW_FEATURES |-> Words(<<"multiview", "multiviewGeometryShader", "multiviewTessellationShader">>)]

ReadFeatureNode ==
    [FEATURES_2 |-> Word("features") \o Ok,
     VULKAN_1_1_FEATURES |->
        Words(<<"storageBuffer16Bit", "uniformAndStorageBuffer16Bit", "storagePushConstant16",
                "storageInputOutput16", "multiview", "multiviewGeometryShader",
                "multiviewTessellationShader", "variablePointersStorageBuffer", "variablePointers",
                "protectedMemory", "samplerYcbcrConversion", "shaderDrawParameters">>),
     VULKAN_1_2_FEATURES |-> Words(Vulkan12Fields),
     HOST_QUERY_RESET_FEATURES |-> Word("hostQueryReset"),
     TIMELINE_SEMAPHORE_FEATURES |-> Word("timelineSemaphore"),
     SYNCHRONIZATION_2_FEATURES |-> Word("synchronization2"),
     BUFFER_DEVICE_ADDRESS_FEATURES |->
        Words(<<"bufferDeviceAddress", "bufferDeviceAddressCaptureReplay", "bufferDeviceAddressMultiDevice">>),
     DESCRIPTOR_INDEXING_FEATURES |-> Words(DescriptorIndexingFields),
     SEPARATE_DEPTH_STENCIL_LAYOUTS_FEATURES |-> Word("separateDepthStencilLayouts"),
     PROTECTED_MEMORY_FEATURES |-> Word("protectedMemory"),
     SAMPLER_YCBCR_CONVERSION_FEATURES |-> Word("samplerYcbcrConversion"),
     FRAGMENT_SHADING_RATE_FEATURES |-> Words(<<"pipelineRate", "primitiveRate", "attachmentRate">>),
     IMAGELESS_FRAMEBUFFER_FEATURES |-> Word("imagelessFramebuffer"),
     MULTIVIEW_FEATURES |-> Words(<<"multiview", "multiviewGeometryShader", "multiviewTessellationShader">>)]

WritePropertyNode ==
    [FRAGMENT_SHADING_RATE_PROPERTIES |-> ShadingRateProperties,
     MULTIVIEW_PROPERTIES |-> Words(<<"maxMultiviewViewCount", "maxMultiviewInstanceIndex">>),
     POINT_CLIPPING_PROPERTIES |-> Word("pointClippingBehavior"),
     VULKAN_1_1_PROPERTIES |->
        Uuids \o Words(<<"deviceNodeMask", "deviceLUIDValid", "subgroupSize", "supportedStages",
            "supportedOperations", "quadOperationsInAllStages", "pointClippingBehavior",
            "maxMultiviewViewCount", "maxMultiviewInstanceIndex", "FALSE", "maxPerSetDescriptors">>) \o
        Wide("maxMemoryAllocationSize"),
     VULKAN_1_2_PROPERTIES |-> Blob("vulkan12Properties"),
     TIMELINE_SEMAPHORE_PROPERTIES |-> Wide("maxTimelineSemaphoreValueDifference"),
     DEPTH_STENCIL_RESOLVE_PROPERTIES |->
        Words(<<"depthResolveModes", "stencilResolveModes", "independentResolveNone", "independentResolve">>),
     DESCRIPTOR_INDEXING_PROPERTIES |-> ZeroedBlob("descriptorIndexingProperties"),
     SUBGROUP_PROPERTIES |->
        Words(<<"subgroupSize", "supportedStages", "supportedOperations", "quadOperationsInAllStages">>),
     ID_PROPERTIES |-> Uuids \o Words(<<"deviceNodeMask", "deviceLUIDValid">>),
     PROTECTED_MEMORY_PROPERTIES |-> Word("FALSE"),
     MAINTENANCE_3_PROPERTIES |-> Word("maxPerSetDescriptors") \o Wide("maxMemoryAllocationSize"),
     SAMPLER_YCBCR_CONVERSION_IMAGE_FORMAT_PROPERTIES |-> Word("combinedImageSamplerDescriptorCount"),
     MEMORY_DEDICATED_REQUIREMENTS |-> Words(<<"prefersDedicated", "requiresDedicated">>)]

ReadPropertyNode ==
    [FRAGMENT_SHADING_RATE_PROPERTIES |-> ShadingRateProperties,
     MULTIVIEW_PROPERTIES |-> Words(<<"maxMultiviewViewCount", "maxMultiviewInstanceIndex">>),
     POINT_CLIPPING_PROPERTIES |-> Word("pointClippingBehavior"),
     VULKAN_1_1_PROPERTIES |->
        Uuids \o Words(<<"deviceNodeMask", "deviceLUIDValid", "subgroupSize", "supportedStages",
            "supportedOperations", "quadOperationsInAllStages", "pointClippingBehavior",
            "maxMultiviewViewCount", "maxMultiviewInstanceIndex", "protectedNoFault",
            "maxPerSetDescriptors">>) \o
        Wide("maxMemoryAllocationSize"),
     VULKAN_1_2_PROPERTIES |-> Blob("vulkan12Properties"),
     TIMELINE_SEMAPHORE_PROPERTIES |-> Wide("maxTimelineSemaphoreValueDifference"),
     DEPTH_STENCIL_RESOLVE_PROPERTIES |->
        Words(<<"depthResolveModes", "stencilResolveModes", "independentResolveNone", "independentResolve">>),
     DESCRIPTOR_INDEXING_PROPERTIES |-> Blob("descriptorIndexingProperties"),
     SUBGROUP_PROPERTIES |->
        Words(<<"subgroupSize", "supportedStages", "supportedOperations", "quadOperationsInAllStages">>),
     ID_PROPERTIES |-> Uuids \o Words(<<"deviceNodeMask", "deviceLUIDValid">>),
     PROTECTED_MEMORY_PROPERTIES |-> Word("protectedNoFault"),
     MAINTENANCE_3_PROPERTIES |-> Word("maxPerSetDescriptors") \o Wide("maxMemoryAllocationSize"),
     SAMPLER_YCBCR_CONVERSION_IMAGE_FORMAT_PROPERTIES |-> Word("combinedImageSamplerDescriptorCount"),
     MEMORY_DEDICATED_REQUIREMENTS |-> Words(<<"prefersDedicated", "requiresDedicated">>)]

\* Nodes that extend the struct of a command.
WriteStructNode ==
    [RENDER_PASS_INPUT_ATTACHMENT_ASPECT |->
        Word("aspectReferenceCount") \o
        Each("aspectReferenceCount", Words(<<"subpass", "inputAttachmentIndex", "aspectMask">>)),
     RENDER_PASS_MULTIVIEW |->
        Word("viewMaskCount") \o Each("viewMaskCount", Word("viewMask")) \o
        Word("viewOffsetCount") \o Each("viewOffsetCount", Word("viewOffset")) \o
        Word("correlationMaskCount") \o Each("correlationMaskCount", Word("correlationMask")),
     FRAGMENT_SHADING_RATE_ATTACHMENT_INFO |->
        Opt("shadingRateAttachment", AttachmentReference2) \o Extent("texelWidth", "texelHeight"),
     PIPELINE_FRAGMENT_SHADING_RATE_STATE |->
        Extent("fragmentWidth", "fragmentHeight") \o Words(<<"combinerOp0", "combinerOp1">>),
     TESSELLATION_DOMAIN_ORIGIN_STATE |-> Word("domainOrigin"),
     IMAGE_FORMAT_LIST |-> Word("viewFormatCount") \o Each("viewFormatCount", Word("viewFormat")),
     IMAGE_VIEW_USAGE |-> Word("usage"),
     SAMPLER_YCBCR_CONVERSION_INFO |-> Id("conversion"),
     IMAGE_PLANE_MEMORY_REQUIREMENTS_INFO |-> Word("planeAspect"),
     BIND_IMAGE_PLANE_MEMORY_INFO |-> Word("planeAspect"),
     FRAMEBUFFER_ATTACHMENTS |->
        Word("imageInfoCount") \o
        Each("imageInfoCount",
            Words(<<"imageFlags", "imageUsage", "width", "height", "layerCount", "viewFormatCount">>) \o
            Each("viewFormatCount", Word("viewFormat"))),
     SEMAPHORE_TYPE |-> Word("semaphoreType") \o Wide("initialValue"),
     TIMELINE_SEMAPHORE_SUBMIT |->
        Word("waitValueCount") \o Each("waitValueCount", Wide("waitValue")) \o
        Word("signalValueCount") \o Each("signalValueCount", Wide("signalValue")),
     BUFFER_OPAQUE_CAPTURE_ADDRESS |-> Wide("opaqueCaptureAddress"),
     MEMORY_ALLOCATE_FLAGS |->
        In("otherFlags", {0}) \o In("deviceMask", {0}) \o Words(<<"otherFlags", "deviceMask">>),
     RENDER_PASS_ATTACHMENT_BEGIN |-> Word("beginAttachmentCount") \o Ids("beginAttachments", "beginAttachmentCount")]

\* r.u32(), !r.ok() and valid_count(), before an array is allocated.
CountIn(n) == Word(n) \o Ok \o Limit(n)

ReadStructNode ==
    [RENDER_PASS_INPUT_ATTACHMENT_ASPECT |->
        CountIn("aspectReferenceCount") \o
        Each("aspectReferenceCount", Words(<<"subpass", "inputAttachmentIndex", "aspectMask">>)),
     RENDER_PASS_MULTIVIEW |->
        CountIn("viewMaskCount") \o Each("viewMaskCount", Word("viewMask")) \o
        CountIn("viewOffsetCount") \o Each("viewOffsetCount", Word("viewOffset")) \o
        CountIn("correlationMaskCount") \o Each("correlationMaskCount", Word("correlationMask")),
     FRAGMENT_SHADING_RATE_ATTACHMENT_INFO |->
        Opt("shadingRateAttachment", AttachmentReference2) \o Extent("texelWidth", "texelHeight") \o Ok,
     PIPELINE_FRAGMENT_SHADING_RATE_STATE |->
        Extent("fragmentWidth", "fragmentHeight") \o Ok \o Words(<<"combinerOp0", "combinerOp1">>),
     TESSELLATION_DOMAIN_ORIGIN_STATE |-> Word("domainOrigin"),
     IMAGE_FORMAT_LIST |-> CountIn("viewFormatCount") \o Each("viewFormatCount", Word("viewFormat")),
     IMAGE_VIEW_USAGE |-> Word("usage"),
     SAMPLER_YCBCR_CONVERSION_INFO |-> Id("conversion") \o Patch("conversion"),
     IMAGE_PLANE_MEMORY_REQUIREMENTS_INFO |-> Word("planeAspect"),
     BIND_IMAGE_PLANE_MEMORY_INFO |-> Word("planeAspect"),
     FRAMEBUFFER_ATTACHMENTS |->
        CountIn("imageInfoCount") \o
        Each("imageInfoCount",
            Words(<<"imageFlags", "imageUsage", "width", "height", "layerCount">>) \o
            CountIn("viewFormatCount") \o Each("viewFormatCount", Word("viewFormat"))),
     SEMAPHORE_TYPE |-> Word("semaphoreType") \o Wide("initialValue"),
     TIMELINE_SEMAPHORE_SUBMIT |->
        CountIn("waitValueCount") \o Each("waitValueCount", Wide("waitValue")) \o
        CountIn("signalValueCount") \o Each("signalValueCount", Wide("signalValue")),
     BUFFER_OPAQUE_CAPTURE_ADDRESS |-> Wide("opaqueCaptureAddress"),
     MEMORY_ALLOCATE_FLAGS |->
        Words(<<"otherFlags", "deviceMask">>) \o In("otherFlags", {0}) \o In("deviceMask", {0}),
     RENDER_PASS_ATTACHMENT_BEGIN |->
        CountIn("beginAttachmentCount") \o PatchedIds("beginAttachments", "beginAttachmentCount")]

\* write_node_fields and read_node_fields: a type without an entry is refused.
write_node_fields == WriteFeatureNode @@ WritePropertyNode @@ WriteStructNode
read_node_fields == ReadFeatureNode @@ ReadPropertyNode @@ ReadStructNode
=============================================================================
