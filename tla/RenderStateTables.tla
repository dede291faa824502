-------------------------- MODULE RenderStateTables --------------------------
(***************************************************************************)
(* Which piece of the game's state is read by what a draw binds, and which *)
(* dirty flag a call that changes it raises (src/device.cpp, CreatePSO,    *)
(* PrepareDrawCall and the Set* methods; render_state.cpp; SamplerDesc of  *)
(* dx_utils.cpp).  States have the names of their fields.                  *)
(***************************************************************************)
EXTENDS Naturals, FiniteSets

\* What DIRTY_FLAG_ALL_RESOURCES covers.
DirtyFlags == {"OM", "TRANSFORMS", "VS_CBUFFER", "PS_CBUFFER", "PS_TEXTURES",
               "PS_SAMPLERS", "LIGHTS", "PSO"}

FogStates == {"fog_enable", "fog_color", "fog_table_mode", "fog_vertex_mode",
              "fog_start", "fog_end", "fog_density"}
MaterialSources == {"diffuse_material_source", "specular_material_source",
                    "ambient_material_source", "emissive_material_source"}
StencilStates == {"stencil_enable", "stencil_fail", "stencil_zfail",
                  "stencil_pass", "stencil_func", "stencil_mask",
                  "stencil_write_mask"}

\* The states of GetEnumAtIndex that anything is done with, then the others,
\* which are kept only to be given back.
DrawnRenderStates ==
  FogStates \cup MaterialSources \cup StencilStates \cup
  {"zbuffer_type", "zwrite_enable", "fill_mode", "alpha_test_enable",
   "src_blend", "dest_blend", "cull_mode", "z_func", "alpha_ref", "alpha_func",
   "alpha_blend_enable", "specular_enable", "edge_antialias", "z_bias",
   "stencil_ref", "texture_factor", "lighting", "ambient", "color_vertex",
   "normalized_normals", "multisample_antialias", "color_write_enable",
   "blend_op", "clipping"}
KeptRenderStates ==
  {"shade_mode", "dither_enable", "range_fog_enable", "local_viewer",
   "point_size", "point_size_min", "point_sprite_enable", "point_scale_enable",
   "point_scale_a", "point_scale_b", "point_scale_c", "point_size_max",
   "clip_plane_enable", "last_pixel", "line_pattern", "z_visible",
   "software_vertex_processing", "multisample_mask", "patch_edge_style",
   "patch_segments", "debug_monitor_token", "vertex_blend",
   "indexed_vertex_blend_enable", "tween_factor", "position_order",
   "normal_order", "wrap"}
RenderStates == DrawnRenderStates \cup KeptRenderStates

\* The states SetRenderState does not raise DIRTY_FLAG_PSO for, and the ones
\* CreatePSO sets to a fixed value in its cache key.
NotPsoStates ==
  FogStates \cup MaterialSources \cup
  {"texture_factor", "ambient", "alpha_ref", "dither_enable",
   "range_fog_enable", "color_vertex", "stencil_ref", "local_viewer",
   "normalized_normals"}
NormalizedStates ==
  {"texture_factor", "ambient", "alpha_ref", "dither_enable",
   "range_fog_enable", "color_vertex", "stencil_ref", "local_viewer",
   "normalized_normals"} \cup FogStates \cup MaterialSources

\* What CreatePSO writes into the pipeline description, and what
\* CreatePixelShaderFromState generates code from.
DescStates ==
  {"alpha_blend_enable", "src_blend", "dest_blend", "blend_op",
   "color_write_enable", "fill_mode", "cull_mode", "z_bias", "clipping",
   "multisample_antialias", "edge_antialias", "zbuffer_type", "zwrite_enable",
   "z_func"} \cup StencilStates
ShaderStates == {"alpha_test_enable", "alpha_func"}

\* A texture stage's states: those that shape the generated shader, those the
\* sampler is built from, and those kept only to be given back.
ShaderStageStates ==
  {"color_op", "color_arg0", "color_arg1", "color_arg2", "alpha_op",
   "alpha_arg0", "alpha_arg1", "alpha_arg2", "texcoord_index",
   "transform_flags", "result_arg"}
SamplerStageStates ==
  {"address_u", "address_v", "border_color", "mag_filter", "min_filter",
   "mip_filter", "mipmap_lod_bias", "max_anisotropy"}
StageStates == ShaderStageStates \cup SamplerStageStates \cup
               {"address_w", "bump_env_mat", "bump_env_lscale", "bump_env_loffset"}

\* The configuration's part in what is bound.  Nothing raises a flag for it.
PsoSettings == {"lighting_mode", "near_plane_clipping", "injection"}
SamplerSettings == {"anisotropic_override"}
Settings == PsoSettings \cup SamplerSettings

-----------------------------------------------------------------------------
\* The calls that raise each flag, by the state they change.
RaisersWithSourcesUnheard ==  \* fault: no LIGHTS for the material sources
  [OM |-> {"target", "depth"},
   TRANSFORMS |-> {"world", "view", "projection"},
   VS_CBUFFER |-> {"vs_cregs"},
   PS_CBUFFER |-> {"material", "texture_factor", "alpha_ref"} \cup FogStates,
   PS_TEXTURES |-> {"tex0", "tex1"},
   PS_SAMPLERS |-> SamplerStageStates \cup {"address_w", "max_mip_level"},
   LIGHTS |-> {"view", "light", "lighting", "color_vertex", "ambient",
               "specular_enable", "normalized_normals"},
   PSO |-> (RenderStates \ NotPsoStates) \cup ShaderStageStates \cup
           {"vertex_shader", "pixel_shader", "target", "depth", "tex0", "tex1"}]

Raisers ==
  [OM |-> {"target", "depth"},
   TRANSFORMS |-> {"world", "view", "projection"},
   VS_CBUFFER |-> {"vs_cregs"},
   PS_CBUFFER |-> {"material", "texture_factor", "alpha_ref"} \cup FogStates,
   PS_TEXTURES |-> {"tex0", "tex1"},
   PS_SAMPLERS |-> SamplerStageStates \cup {"address_w", "max_mip_level"},
   LIGHTS |-> {"view", "light", "lighting", "color_vertex", "ambient",
               "specular_enable", "normalized_normals"} \cup MaterialSources,
   PSO |-> (RenderStates \ NotPsoStates) \cup ShaderStageStates \cup
           {"vertex_shader", "pixel_shader", "target", "depth", "tex0", "tex1"}]

Raises(input) == {f \in DirtyFlags : input \in Raisers[f]}

\* What each part of a draw's bindings is made from, and the flag that has it
\* made again.  "prim" is the draw's own argument.
ReadBy ==
  [viewport |-> {"viewport", "target", "scene"},
   render_target |-> {"target", "depth", "scene"},
   pso |-> DescStates \cup ShaderStates \cup ShaderStageStates \cup PsoSettings
           \cup {"prim", "vertex_shader", "pixel_shader", "target", "depth",
                 "tex0", "tex1"},
   vs_cbuffer |-> {"world", "view", "projection", "viewport"},
   lights_cbuffer |-> {"view", "light", "color_vertex", "specular_enable",
                       "lighting", "normalized_normals", "ambient"}
                      \cup MaterialSources,
   ps_cbuffer |-> {"material", "alpha_ref", "texture_factor"} \cup FogStates,
   vs_creg_cbuffer |-> {"vs_cregs"},
   table0 |-> {"tex0"},
   table1 |-> {"tex1"},
   sampler |-> SamplerStageStates \cup SamplerSettings]

MadeAgainFor ==
  [viewport |-> "OM", render_target |-> "OM", pso |-> "PSO",
   vs_cbuffer |-> "TRANSFORMS", lights_cbuffer |-> "LIGHTS",
   ps_cbuffer |-> "PS_CBUFFER", vs_creg_cbuffer |-> "VS_CBUFFER",
   table0 |-> "PS_TEXTURES", table1 |-> "PS_TEXTURES", sampler |-> "PS_SAMPLERS"]

\* What is not announced by a flag: the viewport, which SetViewport only stores,
\* the settings, the scene pass, whose end raises OM itself, and the primitive
\* type, which is compared.
Unannounced == {"viewport", "scene", "prim"} \cup Settings
==============================================================================
