SPECIFICATION MCSpec
CONSTANTS
  Class <- MCClass
  Key <- MCKey
  NoClass = NoClass
  Typedefs <- MCTypedefs
  Enums <- MCEnums
  BaseOf <- MCBaseOf
  NoBase = NoBase
  Ctors <- MCCtors
  ConvOps <- MCConvOps
  Locals <- MCLocals
  Globals <- MCGlobals
  Fields <- MCFields
  EnumConsts <- MCEnumConsts
  AnyName = AnyName
  Callables <- BodyCallables
  Primitive <- MCPrimitive
  NoOwner = NoOwner
  MaxDecls = 5
INVARIANTS
  VtablesAsC
  ResolvesAsC
  ReadsThrough
  UsesKeepTheirMeaning
  PointersAgree
CHECK_DEADLOCK FALSE
