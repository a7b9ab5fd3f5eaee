SPECIFICATION Spec
CONSTANTS
  Foundation <- MCFoundation
  Platform <- MCPlatform
  Agents <- MCAgents
  PlatformTeardown <- MCPlatformTeardown
  FoundationTeardown <- MCFoundationTeardown
  PlatformChecked <- MCPlatformChecked
  Imports <- MCImports
PROPERTY DeployKeepsStacks
